---------------------------- MODULE Spec2Model ----------------------------
(***************************************************************************)
(* Model of the UI Schema synthesis of holdemlab/ui-json-schema            *)
(* (parser/struct_parser.go and the schema package it uses).               *)
(*                                                                         *)
(* A struct type is a sequence of field descriptors; a UI Schema element   *)
(* is a record with the fields of schema.UISchemaElement plus `ptr`, the   *)
(* identity of the Go pointer (the path of field names the element was     *)
(* built from).  Go strings that the code parses are looked up in Chars,   *)
(* which gives their characters.                                           *)
(***************************************************************************)
EXTENDS Integers, Sequences, FiniteSets, TLC

VARIABLES
    pc,        \* position inside GenerateUISchemaWithOptions
    input,     \* the struct type: a sequence of field descriptors
    opts,      \* schema.Options of the call
    root,      \* the root element under construction / returned
    built,     \* root.Elements as buildUIElements left them (history)
    catInput,  \* the list handed to buildCategorization (history)
    catOrder,  \* buildCategorization: bucket names in first-occurrence order
    catMap,    \* buildCategorization: bucket name -> Category element
    catNext,   \* buildCategorization: index of the next category to finish
    catRuns,   \* number of times the categorization pass has run (history)
    groupRuns, \* number of root-level grouping calls (history)
    text,      \* the text or bytes handed to a parsing call
    parsed,    \* what the call under study returned
    jschema,   \* the JSON Schema GenerateJSONSchemaWithOptions returned
    calls,     \* the calls in progress: call id -> locals, or the frames of
               \* the goroutine's stack
    shared     \* what the calls have in common

\* the locals of one synthesis call
callVars == <<pc, input, opts, root, built, catInput, catOrder, catMap, catNext,
              catRuns, groupRuns>>

\* the state outside a single synthesis call
extra == <<text, parsed, jschema, calls, shared>>

vars == <<pc, input, opts, root, built, catInput, catOrder, catMap, catNext,
          catRuns, groupRuns, text, parsed, jschema, calls, shared>>

---------------------------------------------------------------------------
(* Bounds of the model *)

MaxFields == 3      \* fields of the root struct in Spec
MaxNested == 2      \* fields of the nested struct in Spec
MaxSiblings == 4    \* length of the sibling list in SpecGroup

---------------------------------------------------------------------------
(* Generic helpers *)

Range(s) == {s[i] : i \in 1..Len(s)}

SeqsUpTo(S, n) == UNION {[1..k -> S] : k \in 0..n}

RECURSIVE Str(_)
\* the Go string made of the characters cs
Str(cs) == IF cs = <<>> THEN "" ELSE Head(cs) \o Str(Tail(cs))

\* index of the first occurrence of character c in cs, 0 when absent
IndexOf(cs, c) ==
    IF \E i \in 1..Len(cs) : cs[i] = c
    THEN CHOOSE i \in 1..Len(cs) : cs[i] = c /\ \A j \in 1..(i-1) : cs[j] # c
    ELSE 0

RECURSIVE TrimLeft(_)
TrimLeft(cs) == IF cs # <<>> /\ Head(cs) = " " THEN TrimLeft(Tail(cs)) ELSE cs

RECURSIVE TrimRight(_)
TrimRight(cs) ==
    IF cs # <<>> /\ cs[Len(cs)] = " " THEN TrimRight(SubSeq(cs, 1, Len(cs)-1)) ELSE cs

\* strings.TrimSpace
TrimSpace(cs) == TrimRight(TrimLeft(cs))

\* The characters of the rule expression texts used as inputs.
Chars ==
    ("" :> <<>>) @@
    ("a:true" :> <<"a", ":", "t", "r", "u", "e">>) @@
    ("b:1" :> <<"b", ":", "1">>) @@
    ("c: x" :> <<"c", ":", " ", "x">>) @@
    ("d" :> <<"d">>) @@
    (":e" :> <<":", "e">>) @@
    ("a=true" :> <<"a", "=", "t", "r", "u", "e">>) @@
    ("b=1" :> <<"b", "=", "1">>) @@
    ("=e" :> <<"=", "e">>)

---------------------------------------------------------------------------
(* schema package: rules *)

EffectShow == "SHOW"
EffectHide == "HIDE"
EffectEnable == "ENABLE"
EffectDisable == "DISABLE"

\* a nil *UISchemaRule
NilRule == [nil |-> TRUE, Effect |-> "", Scope |-> "",
            Const |-> [kind |-> "", b |-> FALSE, n |-> 0, s |-> ""]]

Digits == {"0", "1", "2", "3", "4", "5", "6", "7", "8", "9"}

DigitVal(c) == CHOOSE d \in 0..9 : <<"0","1","2","3","4","5","6","7","8","9">>[d+1] = c

RECURSIVE DecVal(_)
DecVal(cs) == IF cs = <<>> THEN 0 ELSE DecVal(SubSeq(cs, 1, Len(cs)-1)) * 10 + DigitVal(cs[Len(cs)])

\* strconv.ParseBool accepts exactly these texts
BoolTrue == {<<"1">>, <<"t">>, <<"T">>, <<"T","R","U","E">>, <<"t","r","u","e">>, <<"T","r","u","e">>}
BoolFalse == {<<"0">>, <<"f">>, <<"F">>, <<"F","A","L","S","E">>, <<"f","a","l","s","e">>, <<"F","a","l","s","e">>}

IsDigits(cs) == cs # <<>> /\ \A i \in 1..Len(cs) : cs[i] \in Digits

\* strconv.ParseInt(val, 10, 64) succeeds: optional sign, then digits
IsInt(cs) ==
    \/ IsDigits(cs)
    \/ cs # <<>> /\ Head(cs) \in {"+", "-"} /\ IsDigits(Tail(cs))

IntVal(cs) ==
    IF Head(cs) = "-" THEN 0 - DecVal(Tail(cs))
    ELSE IF Head(cs) = "+" THEN DecVal(Tail(cs))
    ELSE DecVal(cs)

\* strconv.ParseFloat succeeds on plain decimals digits.digits (the texts the
\* model uses); other float syntaxes are outside the input alphabet
IsFloat(cs) ==
    LET u == IF cs # <<>> /\ Head(cs) \in {"+", "-"} THEN Tail(cs) ELSE cs
        d == IndexOf(u, ".")
    IN  /\ d > 0
        /\ Len(u) > 1
        /\ \A i \in 1..Len(u) : i # d => u[i] \in Digits

parseConditionValue(val) ==
    IF val \in BoolTrue THEN [kind |-> "bool", b |-> TRUE, n |-> 0, s |-> ""]
    ELSE IF val \in BoolFalse THEN [kind |-> "bool", b |-> FALSE, n |-> 0, s |-> ""]
    ELSE IF IsInt(val) THEN [kind |-> "int", b |-> FALSE, n |-> IntVal(val), s |-> ""]
    ELSE IF IsFloat(val) THEN [kind |-> "float", b |-> FALSE, n |-> 0, s |-> Str(val)]
    ELSE [kind |-> "string", b |-> FALSE, n |-> 0, s |-> Str(val)]

\* ParseRuleChars without the test for an empty field name
ParseRuleChars_noFieldCheck(cs, effect) ==
    LET i == IndexOf(cs, "=")
        field == TrimSpace(SubSeq(cs, 1, i-1))
        rawValue == TrimSpace(SubSeq(cs, i+1, Len(cs)))
    IN  IF cs = <<>> THEN NilRule
        ELSE IF i = 0 THEN NilRule
        ELSE [nil |-> FALSE, Effect |-> effect,
              Scope |-> "#/properties/" \o Str(field),
              Const |-> parseConditionValue(rawValue)]

\* ParseRuleExpression on the characters of the expression
ParseRuleChars(cs, effect) ==
    LET i == IndexOf(cs, "=")
        field == TrimSpace(SubSeq(cs, 1, i-1))
        rawValue == TrimSpace(SubSeq(cs, i+1, Len(cs)))
    IN  IF cs = <<>> THEN NilRule
        ELSE IF i = 0 THEN NilRule
        ELSE IF field = <<>> THEN NilRule
        ELSE [nil |-> FALSE, Effect |-> effect,
              Scope |-> "#/properties/" \o Str(field),
              Const |-> parseConditionValue(rawValue)]

ParseRuleExpression(expr, effect) == ParseRuleChars(Chars[expr], effect)

\* strings.Replace(expr, ":", "=", 1)
ReplaceFirstColon(cs) ==
    LET i == IndexOf(cs, ":")
    IN  IF i = 0 THEN cs ELSE [j \in 1..Len(cs) |-> IF j = i THEN "=" ELSE cs[j]]

ParseFormRuleExpression(expr, effect) ==
    ParseRuleChars(ReplaceFirstColon(Chars[expr]), effect)

---------------------------------------------------------------------------
(* schema package: elements *)

NilOptions == [nil |-> TRUE, m |-> <<>>]

NewElement(type, ptr) ==
    [Type |-> type, Label |-> "", I18n |-> "", Scope |-> "", Elements |-> <<>>,
     Options |-> NilOptions, Rule |-> NilRule, ptr |-> ptr]

NewVerticalLayout == NewElement("VerticalLayout", <<"root">>)

NewHorizontalLayout(ptr) == NewElement("HorizontalLayout", ptr)

NewGroup(label, ptr) == [NewElement("Group", ptr) EXCEPT !.Label = label]

NewCategorization == NewElement("Categorization", <<"root">>)

NewCategory(label) == [NewElement("Category", <<"category", label>>) EXCEPT !.Label = label]

NewControl(scope, ptr) == [NewElement("Control", ptr) EXCEPT !.Scope = scope]

(* the Options map of an element *)

HasOpt(el, k) == ~el.Options.nil /\ k \in DOMAIN el.Options.m

\* el.Options[k].(string): the value and ok; a missing key or a nil map gives "", false
OptString(el, k) == IF HasOpt(el, k) THEN el.Options.m[k] ELSE ""

ensureOptions(el) ==
    IF el.Options.nil THEN [el EXCEPT !.Options = [nil |-> FALSE, m |-> <<>>]] ELSE el

\* el.Options[k] = v on a non-nil map
SetOpt(el, k, v) ==
    [el EXCEPT !.Options.m = (k :> v) @@ [j \in DOMAIN el.Options.m \ {k} |-> el.Options.m[j]]]

\* delete(el.Options, k)
DelOpt(el, k) ==
    [el EXCEPT !.Options.m = [j \in DOMAIN el.Options.m \ {k} |-> el.Options.m[j]]]

\* the element left with whatever map it has, empty or not
NilIfEmpty_keep(el) == el

\* if len(el.Options) == 0 { el.Options = nil }
NilIfEmpty(el) ==
    IF DOMAIN el.Options.m = {} THEN [el EXCEPT !.Options = NilOptions] ELSE el

---------------------------------------------------------------------------
(* parser package: horizontal grouping (struct_parser.go) *)

layoutHorizontal == "horizontal"

isHorizontalElement(el) == HasOpt(el, "layout") /\ el.Options.m["layout"] = layoutHorizontal

layoutGroupName(el) == OptString(el, "layoutGroup")

consumeLayoutOption(el) ==
    IF el.Options.nil THEN el
    ELSE NilIfEmpty(DelOpt(DelOpt(el, "layout"), "layoutGroup"))

\* Elements are Go pointers: the passes work on the indices of `elements`, and
\* st.els[i] is the current content of the element elements[i] points to.

\* first pass, memberGroup: index -> group name, for the named horizontal elements
memberGroup(elements) ==
    [i \in {j \in 1..Len(elements) :
                isHorizontalElement(elements[j]) /\ layoutGroupName(elements[j]) # ""}
        |-> layoutGroupName(elements[i])]

RECURSIVE IndicesOf(_, _, _)
\* the indices of mg mapped to g, in list order, from index i on
IndicesOf(mg, g, i) ==
    IF i > 0 /\ \A j \in DOMAIN mg : j < i THEN <<>>
    ELSE IF i \in DOMAIN mg /\ mg[i] = g THEN <<i>> \o IndicesOf(mg, g, i + 1)
    ELSE IndicesOf(mg, g, i + 1)

\* first pass, namedGroups: group name -> its members in list order
namedGroups(elements) ==
    LET mg == memberGroup(elements)
    IN  [g \in {mg[i] : i \in DOMAIN mg} |-> IndicesOf(mg, g, 1)]

RECURSIVE ConsumeAll(_, _)
\* for _, el := range members { consumeLayoutOption(el) }
ConsumeAll(els, members) ==
    IF members = <<>> THEN els
    ELSE ConsumeAll([els EXCEPT ![Head(members)] = consumeLayoutOption(els[Head(members)])],
                    Tail(members))

\* a unit of the result: one member as it is, two or more under a new HorizontalLayout
flushUnnamed(st) ==
    IF st.pendingH = <<>> THEN st
    ELSE [st EXCEPT !.els = ConsumeAll(st.els, st.pendingH),
                    !.result = Append(st.result, st.pendingH),
                    !.pendingH = <<>>]

emitNamedGroup(st, ng, groupName) ==
    [st EXCEPT !.els = ConsumeAll(st.els, ng[groupName]),
               !.result = Append(st.result, ng[groupName]),
               !.emittedGroups = st.emittedGroups \cup {groupName}]

\* groupVisit without the emittedGroups test: a group is emitted at every member
groupVisit_reemit(st, mg, ng, i) ==
    IF i \in DOMAIN mg THEN emitNamedGroup(flushUnnamed(st), ng, mg[i])
    ELSE IF isHorizontalElement(st.els[i]) THEN
        [st EXCEPT !.pendingH = Append(st.pendingH, i)]
    ELSE
        [flushUnnamed(st) EXCEPT !.result = Append(flushUnnamed(st).result, <<i>>)]

\* groupVisit without the flush before a named group is emitted
groupVisit_noflush(st, mg, ng, i) ==
    IF i \in DOMAIN mg THEN
        IF mg[i] \notin st.emittedGroups THEN emitNamedGroup(st, ng, mg[i]) ELSE st
    ELSE IF isHorizontalElement(st.els[i]) THEN
        [st EXCEPT !.pendingH = Append(st.pendingH, i)]
    ELSE
        [flushUnnamed(st) EXCEPT !.result = Append(flushUnnamed(st).result, <<i>>)]

\* one iteration of the second pass, on elements[i]
groupVisit(st, mg, ng, i) ==
    IF i \in DOMAIN mg THEN
        LET st1 == flushUnnamed(st)
        IN  IF mg[i] \notin st1.emittedGroups THEN emitNamedGroup(st1, ng, mg[i]) ELSE st1
    ELSE IF isHorizontalElement(st.els[i]) THEN
        [st EXCEPT !.pendingH = Append(st.pendingH, i)]
    ELSE
        [flushUnnamed(st) EXCEPT !.result = Append(flushUnnamed(st).result, <<i>>)]

RECURSIVE groupWalk(_, _, _, _)
groupWalk(st, mg, ng, i) ==
    IF i > Len(st.els) THEN flushUnnamed(st)
    ELSE groupWalk(groupVisit(st, mg, ng, i), mg, ng, i + 1)

\* unitElement without the single-member case: every unit gets a wrapper
unitElement_alwaysWrap(els, unit) ==
    [NewHorizontalLayout(<<"HorizontalLayout">> \o els[unit[1]].ptr)
        EXCEPT !.Elements = [k \in 1..Len(unit) |-> els[unit[k]]]]

\* the element a unit of the result stands for
unitElement(els, unit) ==
    IF Len(unit) = 1 THEN els[unit[1]]
    ELSE [NewHorizontalLayout(<<"HorizontalLayout">> \o els[unit[1]].ptr)
            EXCEPT !.Elements = [k \in 1..Len(unit) |-> els[unit[k]]]]

groupHorizontalElements(elements) ==
    LET st == groupWalk([els |-> elements, result |-> <<>>, pendingH |-> <<>>,
                         emittedGroups |-> {}],
                        memberGroup(elements), namedGroups(elements), 1)
    IN  [k \in 1..Len(st.result) |-> unitElement(st.els, st.result[k])]

---------------------------------------------------------------------------
(* parser package: node building (struct_parser.go) *)

AccessReadWrite == 0
AccessReadOnly == 1
AccessHidden == 2

\* opts.RolePermissions[opts.Role][name], with the two `ok` results
HasPermission(name, o) ==
    /\ o.Role \in DOMAIN o.RolePermissions
    /\ name \in DOMAIN o.RolePermissions[o.Role]

\* isFieldHidden without the role permissions
isFieldHidden_noRole(name, formOpts, o) == formOpts.Hidden

\* isFieldHidden that takes any entry of the role for the field as hiding it
isFieldHidden_anyLevel(name, formOpts, o) ==
    formOpts.Hidden \/ (o.Role # "" /\ HasPermission(name, o))

isFieldHidden(name, formOpts, o) ==
    IF formOpts.Hidden THEN TRUE
    ELSE IF o.Role # "" /\ HasPermission(name, o)
              /\ o.RolePermissions[o.Role][name] = AccessHidden THEN TRUE
    ELSE FALSE

isRoleReadOnly(name, o) ==
    IF o.Role = "" THEN FALSE
    ELSE HasPermission(name, o) /\ o.RolePermissions[o.Role][name] = AccessReadOnly

resolveRenderer(scope, tagRenderer, o) ==
    IF tagRenderer # "" THEN tagRenderer
    ELSE IF scope \in DOMAIN o.Renderers THEN o.Renderers[scope]
    ELSE ""

\* MapTranslator.Translate
Translate(t, key, locale) ==
    IF locale \in DOMAIN t /\ key \in DOMAIN t[locale] THEN t[locale][key] ELSE key

translateLabel(label, i18nKey, o) ==
    IF o.Translator.nil \/ o.Locale = "" THEN
        IF i18nKey # "" /\ label = "" THEN i18nKey ELSE label
    ELSE
        LET key == IF i18nKey = "" /\ label # "" THEN label ELSE i18nKey
        IN  IF key = "" THEN "" ELSE Translate(o.Translator.t, key, o.Locale)

\* applyRule with the cases in the opposite order: the last non-empty tag wins
applyRule_lastWins(control, tags) ==
    IF tags.DisableIf # "" THEN
        [control EXCEPT !.Rule = ParseRuleExpression(tags.DisableIf, EffectDisable)]
    ELSE IF tags.EnableIf # "" THEN
        [control EXCEPT !.Rule = ParseRuleExpression(tags.EnableIf, EffectEnable)]
    ELSE IF tags.HideIf # "" THEN
        [control EXCEPT !.Rule = ParseRuleExpression(tags.HideIf, EffectHide)]
    ELSE IF tags.VisibleIf # "" THEN
        [control EXCEPT !.Rule = ParseRuleExpression(tags.VisibleIf, EffectShow)]
    ELSE control

\* the rule the four rule tags select (a nil rule when none is set)
applyRule(control, tags) ==
    IF tags.VisibleIf # "" THEN
        [control EXCEPT !.Rule = ParseRuleExpression(tags.VisibleIf, EffectShow)]
    ELSE IF tags.HideIf # "" THEN
        [control EXCEPT !.Rule = ParseRuleExpression(tags.HideIf, EffectHide)]
    ELSE IF tags.EnableIf # "" THEN
        [control EXCEPT !.Rule = ParseRuleExpression(tags.EnableIf, EffectEnable)]
    ELSE IF tags.DisableIf # "" THEN
        [control EXCEPT !.Rule = ParseRuleExpression(tags.DisableIf, EffectDisable)]
    ELSE control

applyCategoryRuleOptions(el, formOpts) ==
    LET pick == IF formOpts.VisibleIf # "" THEN <<EffectShow, formOpts.VisibleIf>>
                ELSE IF formOpts.HideIf # "" THEN <<EffectHide, formOpts.HideIf>>
                ELSE IF formOpts.EnableIf # "" THEN <<EffectEnable, formOpts.EnableIf>>
                ELSE IF formOpts.DisableIf # "" THEN <<EffectDisable, formOpts.DisableIf>>
                ELSE <<"", "">>
    IN  IF pick[2] = "" THEN el
        ELSE SetOpt(SetOpt(ensureOptions(el), "categoryRuleEffect", pick[1]),
                    "categoryRuleExpr", pick[2])

applyCategoryI18nOption(el, formOpts) ==
    IF formOpts.I18nKey = "" THEN el
    ELSE SetOpt(ensureOptions(el), "categoryI18n", formOpts.I18nKey)

applyGroupCategoryOptions(group, formOpts) ==
    LET g1 == IF formOpts.Category # ""
              THEN SetOpt(ensureOptions(group), "category", formOpts.Category)
              ELSE group
    IN  applyCategoryI18nOption(applyCategoryRuleOptions(g1, formOpts), formOpts)

buildControl(scope, name, ptr, formOpts, tags, o) ==
    LET c0 == NewControl(scope, ptr)
        controlLabel == translateLabel(formOpts.Label, tags.I18nKey, o)
        c1 == IF controlLabel # "" THEN [c0 EXCEPT !.Label = controlLabel] ELSE c0
        c2 == IF formOpts.Category # ""
              THEN SetOpt(ensureOptions(c1), "category", formOpts.Category)
              ELSE c1
        isReadonly == formOpts.Readonly \/ isRoleReadOnly(name, o)
        c3 == IF isReadonly THEN SetOpt(ensureOptions(c2), "readonly", TRUE) ELSE c2
        c4 == IF formOpts.Multiline THEN SetOpt(ensureOptions(c3), "multi", TRUE) ELSE c3
        renderer == resolveRenderer(scope, tags.Renderer, o)
        c5 == IF renderer # "" THEN SetOpt(ensureOptions(c4), "renderer", renderer) ELSE c4
    IN  applyCategoryI18nOption(applyCategoryRuleOptions(applyRule(c5, tags), formOpts),
                                formOpts)

\* lines 278-285: the layout hints of a Control
annotateLayout(control, formOpts) ==
    IF formOpts.Layout = layoutHorizontal THEN
        LET c == SetOpt(ensureOptions(control), "layout", layoutHorizontal)
        IN  IF formOpts.LayoutGroup # "" THEN SetOpt(c, "layoutGroup", formOpts.LayoutGroup)
            ELSE c
    ELSE control

RECURSIVE buildUIElements(_, _, _, _, _)

\* buildStructField that promotes the nested fields into the parent list, as
\* for an embedded struct, instead of building a Group
buildStructField_inline(field, scope, ptr, elements, o) ==
    elements \o buildUIElements(field.Fields, scope \o "/properties", ptr, <<>>, o)

\* buildStructField that hands the struct field's rule tags down to the
\* children without a rule of their own instead of applying them to the Group
buildStructField_ruleToChildren(field, scope, ptr, elements, o) ==
    LET label == translateLabel(
                     IF field.Form.Label = "" THEN field.GoName ELSE field.Form.Label,
                     field.Tags.I18nKey, o)
        g0 == NewGroup(label, ptr)
        kids == groupHorizontalElements(
                    buildUIElements(field.Fields, scope \o "/properties", ptr, <<>>, o))
        g1 == [g0 EXCEPT !.Elements =
                 [k \in 1..Len(kids) |->
                     IF kids[k].Rule.nil THEN applyRule(kids[k], field.Tags) ELSE kids[k]]]
        group == applyGroupCategoryOptions(g1, field.Form)
    IN  Append(elements, group)

\* lines 253-271: the Group of a nested struct field, appended to parent.Elements
buildStructField(field, scope, ptr, elements, o) ==
    LET label == translateLabel(
                     IF field.Form.Label = "" THEN field.GoName ELSE field.Form.Label,
                     field.Tags.I18nKey, o)
        g0 == NewGroup(label, ptr)
        g1 == [g0 EXCEPT !.Elements = groupHorizontalElements(
                 buildUIElements(field.Fields, scope \o "/properties", ptr, <<>>, o))]
        group == applyGroupCategoryOptions(applyRule(g1, field.Tags), field.Form)
    IN  Append(elements, group)

\* the elements appended to `elements` (parent.Elements) for the fields of the
\* struct type t; path is the identity of the parent
buildUIElements(t, basePath, path, elements, o) ==
    IF t = <<>> THEN elements
    ELSE
        LET field == Head(t)
            name == field.Name
            formOpts == field.Form
            tags == field.Tags
            scope == basePath \o "/" \o name
            ptr == Append(path, name)
        IN  IF ~field.Exported \/ name = "-" \/ isFieldHidden(name, formOpts, o) THEN
                buildUIElements(Tail(t), basePath, path, elements, o)
            ELSE IF field.Kind = "struct" THEN
                buildUIElements(Tail(t), basePath, path,
                                buildStructField(field, scope, ptr, elements, o), o)
            ELSE
                LET control == annotateLayout(
                                   buildControl(scope, name, ptr, formOpts, tags, o), formOpts)
                IN  buildUIElements(Tail(t), basePath, path, Append(elements, control), o)

\* hasCategorizedElements that takes any options map for a category hint
hasCategorizedElements_anyOption(r) ==
    \E i \in 1..Len(r.Elements) : ~r.Elements[i].Options.nil

hasCategorizedElements(r) ==
    \E i \in 1..Len(r.Elements) : HasOpt(r.Elements[i], "category")

---------------------------------------------------------------------------
(* parser package: categorization (struct_parser.go) *)

\* lines 578-590: the bucket name of an element
categoryName(el) ==
    IF HasOpt(el, "category") /\ el.Options.m["category"] # ""
    THEN el.Options.m["category"] ELSE "Other"

\* lines 580-590: the element with its category hint consumed
consumeCategory(el) ==
    IF HasOpt(el, "category") /\ el.Options.m["category"] # ""
    THEN NilIfEmpty(DelOpt(el, "category")) ELSE el

\* bucketAdd that keeps "Other" the last bucket
bucketAdd_otherLast(b, el) ==
    LET catName == categoryName(el)
        el1 == consumeCategory(el)
        cat == IF catName \in DOMAIN b.map THEN b.map[catName] ELSE NewCategory(catName)
        n == Len(b.order)
        order == IF catName \in DOMAIN b.map THEN b.order
                 ELSE IF n > 0 /\ b.order[n] = "Other"
                      THEN SubSeq(b.order, 1, n - 1) \o <<catName, "Other">>
                 ELSE Append(b.order, catName)
        cat1 == [cat EXCEPT !.Elements = Append(cat.Elements, el1)]
    IN  [order |-> order,
         map |-> (catName :> cat1) @@ [m \in DOMAIN b.map \ {catName} |-> b.map[m]]]

\* bucketAdd that starts the bucket of a name again with every element of it
bucketAdd_restart(b, el) ==
    LET catName == categoryName(el)
        el1 == consumeCategory(el)
        cat == NewCategory(catName)
        order == IF catName \in DOMAIN b.map THEN b.order ELSE Append(b.order, catName)
        cat1 == [cat EXCEPT !.Elements = Append(cat.Elements, el1)]
    IN  [order |-> order,
         map |-> (catName :> cat1) @@ [n \in DOMAIN b.map \ {catName} |-> b.map[n]]]

\* lines 578-597: one iteration of the loop over root.Elements; b = [order, map]
bucketAdd(b, el) ==
    LET catName == categoryName(el)
        el1 == consumeCategory(el)
        cat == IF catName \in DOMAIN b.map THEN b.map[catName] ELSE NewCategory(catName)
        order == IF catName \in DOMAIN b.map THEN b.order ELSE Append(b.order, catName)
        cat1 == [cat EXCEPT !.Elements = Append(cat.Elements, el1)]
    IN  [order |-> order,
         map |-> (catName :> cat1) @@ [n \in DOMAIN b.map \ {catName} |-> b.map[n]]]

RECURSIVE bucketElements(_, _)
\* lines 577-598: the loop over root.Elements
bucketElements(elements, b) ==
    IF elements = <<>> THEN b
    ELSE bucketElements(Tail(elements), bucketAdd(b, Head(elements)))

\* index of the first child of cat with both rule hints, 0 when there is none
ruleHintIndex(cat) ==
    LET has(i) == /\ HasOpt(cat.Elements[i], "categoryRuleEffect")
                  /\ HasOpt(cat.Elements[i], "categoryRuleExpr")
    IN  IF \E i \in 1..Len(cat.Elements) : has(i)
        THEN CHOOSE i \in 1..Len(cat.Elements) : has(i) /\ \A j \in 1..(i-1) : ~has(j)
        ELSE 0

extractCategoryRule(cat) ==
    LET i == ruleHintIndex(cat)
    IN  IF i = 0 THEN cat
        ELSE LET el == cat.Elements[i]
             IN  [cat EXCEPT
                    !.Rule = ParseFormRuleExpression(el.Options.m["categoryRuleExpr"],
                                                     el.Options.m["categoryRuleEffect"]),
                    !.Elements[i] = NilIfEmpty(DelOpt(DelOpt(el, "categoryRuleEffect"),
                                                      "categoryRuleExpr"))]

\* index of the first child of cat with a non-empty categoryI18n hint, 0 when none
i18nHintIndex(cat) ==
    LET has(i) == /\ HasOpt(cat.Elements[i], "categoryI18n")
                  /\ cat.Elements[i].Options.m["categoryI18n"] # ""
    IN  IF \E i \in 1..Len(cat.Elements) : has(i)
        THEN CHOOSE i \in 1..Len(cat.Elements) : has(i) /\ \A j \in 1..(i-1) : ~has(j)
        ELSE 0

extractCategoryI18n(cat, o) ==
    LET i == i18nHintIndex(cat)
    IN  IF i = 0 THEN cat
        ELSE LET el == cat.Elements[i]
                 i18nKey == el.Options.m["categoryI18n"]
             IN  [cat EXCEPT
                    !.I18n = i18nKey,
                    !.Label = translateLabel(cat.Label, i18nKey, o),
                    !.Elements[i] = NilIfEmpty(DelOpt(el, "categoryI18n"))]

\* lines 602-606: one iteration of the loop over catOrder
finishCategory(cat, o) ==
    extractCategoryI18n(
        extractCategoryRule([cat EXCEPT !.Elements = groupHorizontalElements(cat.Elements)]),
        o)

\* buildCategorization as one function of the root list
buildCategorization(elements, o) ==
    LET b == bucketElements(elements, [order |-> <<>>, map |-> <<>>])
    IN  [NewCategorization EXCEPT
           !.Elements = [k \in 1..Len(b.order) |-> finishCategory(b.map[b.order[k]], o)]]

\* GenerateUISchemaWithOptions as one function of the struct type and the options
GenerateUISchemaWithOptions(t, o) ==
    LET r == [NewVerticalLayout EXCEPT
                !.Elements = buildUIElements(t, "#/properties", <<>>, <<>>, o)]
    IN  IF hasCategorizedElements(r) THEN buildCategorization(r.Elements, o)
        ELSE [r EXCEPT !.Elements = groupHorizontalElements(r.Elements)]

---------------------------------------------------------------------------
(* Inputs: struct types and options *)

DefaultForm ==
    [Label |-> "", Hidden |-> FALSE, Readonly |-> FALSE, Multiline |-> FALSE,
     Category |-> "", Layout |-> "", LayoutGroup |-> "",
     VisibleIf |-> "", HideIf |-> "", EnableIf |-> "", DisableIf |-> "", I18nKey |-> ""]

DefaultTags ==
    [I18nKey |-> "", VisibleIf |-> "", HideIf |-> "", EnableIf |-> "", DisableIf |-> "",
     Renderer |-> ""]

\* schema.DefaultOptions(), as far as UI Schema generation reads it
DefaultOptions ==
    [Translator |-> [nil |-> TRUE, t |-> <<>>], Locale |-> "", Renderers |-> <<>>,
     RolePermissions |-> <<>>, Role |-> ""]

\* a role whose permissions hide the field f1
ViewerOptions ==
    [DefaultOptions EXCEPT !.Role = "viewer",
                           !.RolePermissions = ("viewer" :> ("f1" :> AccessHidden))]

FieldNames == <<"f1", "f2", "f3", "f4", "f5">>
NestedNames == <<"n1", "n2", "n3">>

\* the form-tag rule directive the i-th field of a struct carries when it has one
FormRuleOf(i, form) ==
    IF i % 3 = 1 THEN [form EXCEPT !.VisibleIf = "a:true"]
    ELSE IF i % 3 = 2 THEN [form EXCEPT !.HideIf = "b:1"]
    ELSE [form EXCEPT !.EnableIf = "c: x"]

Categories == {"", "A", "B"}
LayoutModes == {"none", "unnamed", "g", "h"}

\* the form options of a field with the given directives
FormOf(i, cat, lay, rule, i18n) ==
    LET f1 == [DefaultForm EXCEPT
                 !.Category = cat,
                 !.Layout = IF lay = "none" THEN "" ELSE layoutHorizontal,
                 !.LayoutGroup = IF lay \in {"none", "unnamed"} THEN "" ELSE lay,
                 !.I18nKey = IF i18n THEN "cat.key" ELSE ""]
    IN  IF rule THEN FormRuleOf(i, f1) ELSE f1

NewField(name, kind, form, fields) ==
    [Name |-> name, GoName |-> name, Exported |-> TRUE, Kind |-> kind, Form |-> form,
     Tags |-> DefaultTags, Fields |-> fields]

\* the shapes a field of the root struct is drawn from
PrimShapes ==
    [kind : {"prim"}, cat : Categories, lay : {"none", "unnamed", "g"},
     rule : BOOLEAN, i18n : {FALSE}, ro : {FALSE}, hidden : {FALSE}, exported : {TRUE}]

I18nShapes ==
    [kind : {"prim"}, cat : {"A"}, lay : {"none", "unnamed"},
     rule : {FALSE}, i18n : {TRUE}, ro : {FALSE}, hidden : {FALSE}, exported : {TRUE}]

HiddenShapes ==
    [kind : {"prim"}, cat : {"A"}, lay : {"none"},
     rule : {FALSE}, i18n : {FALSE}, ro : {FALSE}, hidden : {TRUE}, exported : {TRUE}]
    \cup
    [kind : {"prim"}, cat : {"A"}, lay : {"none"},
     rule : {FALSE}, i18n : {FALSE}, ro : {FALSE}, hidden : {FALSE}, exported : {FALSE}]

StructShapes ==
    [kind : {"struct"}, cat : {"", "A"}, lay : {"none"},
     rule : BOOLEAN, i18n : {FALSE}, ro : {FALSE}, hidden : {FALSE}, exported : {TRUE}]

RootShapes == PrimShapes \cup I18nShapes \cup HiddenShapes \cup StructShapes

\* the shapes a field of the nested struct is drawn from
NestedShapes ==
    [kind : {"prim"}, cat : {""}, lay : {"none", "g"},
     rule : {FALSE}, i18n : {FALSE}, ro : {FALSE}, hidden : {FALSE}, exported : {TRUE}]
    \cup
    [kind : {"prim"}, cat : {"A"}, lay : {"none"},
     rule : {TRUE}, i18n : {FALSE}, ro : {FALSE}, hidden : {FALSE}, exported : {TRUE}]

FieldOf(names, i, sh, nested) ==
    [NewField(names[i], sh.kind,
              [FormOf(i, sh.cat, sh.lay, sh.rule, sh.i18n)
                  EXCEPT !.Hidden = sh.hidden, !.Readonly = sh.ro],
              IF sh.kind = "struct" THEN nested ELSE <<>>)
        EXCEPT !.Exported = sh.exported]

StructOf(names, shapes, nested) ==
    [i \in 1..Len(shapes) |-> FieldOf(names, i, shapes[i], nested)]

HasStruct(shapes) == \E i \in 1..Len(shapes) : shapes[i].kind = "struct"

\* the struct types of Spec: up to MaxFields fields; every nested struct field
\* has the same type, of up to MaxNested fields
IsRootType(t) ==
    \E k \in 0..MaxFields : \E sh \in [1..k -> RootShapes] :
        \E n \in 0..(IF HasStruct(sh) THEN MaxNested ELSE 0) :
            \E nsh \in [1..n -> NestedShapes] :
                t = StructOf(FieldNames, sh, StructOf(NestedNames, nsh, <<>>))

OptionChoices == {DefaultOptions, ViewerOptions}

---------------------------------------------------------------------------
(* GenerateUISchemaWithOptions as a state machine *)

\* nothing but one synthesis call is going on
IdleExtra ==
    /\ text = <<>>
    /\ parsed = <<>>
    /\ jschema = <<>>
    /\ calls = <<>>
    /\ shared = <<>>

Init ==
    /\ pc = "start"
    /\ IsRootType(input)
    /\ opts \in OptionChoices
    /\ root = NewVerticalLayout
    /\ built = <<>>
    /\ catInput = <<>>
    /\ catOrder = <<>>
    /\ catMap = <<>>
    /\ catNext = 0
    /\ catRuns = 0
    /\ groupRuns = 0
    /\ IdleExtra

\* line 210: buildUIElements(t, "#/properties", root, &opts)
BuildRoot ==
    /\ pc = "start"
    /\ root' = [root EXCEPT !.Elements =
                    buildUIElements(input, "#/properties", <<>>, root.Elements, opts)]
    /\ built' = root'.Elements
    /\ pc' = "built"
    /\ UNCHANGED <<input, opts, catInput, catOrder, catMap, catNext, catRuns, groupRuns>>
    /\ UNCHANGED extra

\* DecideCategorized with the root list grouped before the category check
DecideCategorized_groupFirst ==
    /\ pc = "built"
    /\ catRuns' = catRuns + 1
    /\ root' = [root EXCEPT !.Elements = groupHorizontalElements(root.Elements)]
    /\ catInput' = root'.Elements
    /\ pc' = IF hasCategorizedElements(root') THEN "bucket" ELSE "group"
    /\ UNCHANGED <<input, opts, built, catOrder, catMap, catNext, groupRuns>>
    /\ UNCHANGED extra

\* line 214: if hasCategorizedElements(root)
DecideCategorized ==
    /\ pc = "built"
    /\ catRuns' = catRuns + 1
    /\ catInput' = root.Elements
    /\ pc' = IF hasCategorizedElements(root) THEN "bucket" ELSE "group"
    /\ UNCHANGED <<input, opts, root, built, catOrder, catMap, catNext, groupRuns>>
    /\ UNCHANGED extra

\* lines 574-600: the buckets, and the empty Categorization
BucketRoot ==
    /\ pc = "bucket"
    /\ LET b == bucketElements(root.Elements, [order |-> <<>>, map |-> <<>>])
       IN  /\ catOrder' = b.order
           /\ catMap' = b.map
    /\ catNext' = 1
    /\ root' = NewCategorization
    /\ pc' = "finish"
    /\ UNCHANGED <<input, opts, built, catInput, catRuns, groupRuns>>
    /\ UNCHANGED extra

\* lines 601-609: one iteration of the loop over catOrder; the last one returns
FinishCategory ==
    /\ pc = "finish"
    /\ catNext <= Len(catOrder)
    /\ LET name == catOrder[catNext]
           cat == finishCategory(catMap[name], opts)
       IN  /\ catMap' = [catMap EXCEPT ![name] = cat]
           /\ root' = [root EXCEPT !.Elements = Append(root.Elements, cat)]
    /\ catNext' = catNext + 1
    /\ pc' = IF catNext = Len(catOrder) THEN "done" ELSE "finish"
    /\ UNCHANGED <<input, opts, built, catInput, catOrder, catRuns, groupRuns>>
    /\ UNCHANGED extra

\* lines 219-221: grouping of the root layout, and return
GroupRoot ==
    /\ pc = "group"
    /\ root' = [root EXCEPT !.Elements = groupHorizontalElements(root.Elements)]
    /\ groupRuns' = groupRuns + 1
    /\ pc' = "done"
    /\ UNCHANGED <<input, opts, built, catInput, catOrder, catMap, catNext, catRuns>>
    /\ UNCHANGED extra

Next ==
    \/ BuildRoot
    \/ DecideCategorized
    \/ BucketRoot
    \/ FinishCategory
    \/ GroupRoot

Spec == Init /\ [][Next]_vars

---------------------------------------------------------------------------
(* groupHorizontalElements on one sibling list *)

\* the shapes of the fields whose elements make the sibling list: Controls with
\* every layout mode, with and without another option, and Groups
SiblingShapes ==
    [kind : {"prim"}, cat : {""}, lay : LayoutModes,
     rule : {FALSE}, i18n : {FALSE}, ro : BOOLEAN, hidden : {FALSE}, exported : {TRUE}]
    \cup
    [kind : {"struct"}, cat : {""}, lay : {"none"},
     rule : {FALSE}, i18n : {FALSE}, ro : {FALSE}, hidden : {FALSE}, exported : {TRUE}]

InitGroup ==
    /\ pc = "siblings"
    /\ \E k \in 0..MaxSiblings : \E sh \in [1..k -> SiblingShapes] :
          input = StructOf(FieldNames, sh, <<>>)
    /\ opts = DefaultOptions
    /\ built = buildUIElements(input, "#/properties", <<>>, <<>>, opts)
    /\ root = [NewVerticalLayout EXCEPT !.Elements = built]
    /\ catInput = <<>>
    /\ catOrder = <<>>
    /\ catMap = <<>>
    /\ catNext = 0
    /\ catRuns = 0
    /\ groupRuns = 0
    /\ IdleExtra

\* elements = groupHorizontalElements(elements)
GroupSiblings ==
    /\ pc = "siblings"
    /\ root' = [root EXCEPT !.Elements = groupHorizontalElements(root.Elements)]
    /\ groupRuns' = groupRuns + 1
    /\ pc' = "grouped"
    /\ UNCHANGED <<input, opts, built, catInput, catOrder, catMap, catNext, catRuns>>
    /\ UNCHANGED extra

NextGroup == GroupSiblings

SpecGroup == InitGroup /\ [][NextGroup]_vars

---------------------------------------------------------------------------
(* Properties of the grouping pass, checked under SpecGroup *)

RECURSIVE Flatten(_)
\* the list with every HorizontalLayout replaced by its children
Flatten(elements) ==
    IF elements = <<>> THEN <<>>
    ELSE (IF Head(elements).Type = "HorizontalLayout" THEN Head(elements).Elements
          ELSE <<Head(elements)>>) \o Flatten(Tail(elements))

Ptrs(elements) == [k \in 1..Len(elements) |-> elements[k].ptr]

\* "none", "unnamed", or the layout group name an element of the input list carries
LayoutModeOf(el) ==
    IF el.Options.nil \/ "layout" \notin DOMAIN el.Options.m THEN "none"
    ELSE IF el.Options.m["layout"] # "horizontal" THEN "none"
    ELSE IF "layoutGroup" \notin DOMAIN el.Options.m THEN "unnamed"
    ELSE el.Options.m["layoutGroup"]

GroupNames == {LayoutModeOf(built[i]) : i \in 1..Len(built)} \ {"none", "unnamed"}

MembersOf(g) == {i \in 1..Len(built) : LayoutModeOf(built[i]) = g}

FirstOf(g) == CHOOSE i \in MembersOf(g) : \A j \in MembersOf(g) : i <= j

\* position in the input list of the element with pointer p
InputIndex(p) == CHOOSE i \in 1..Len(built) : built[i].ptr = p

\* position in the output list of the unit that holds the i-th input element
UnitPos(i) ==
    CHOOSE k \in 1..Len(root.Elements) :
        \/ root.Elements[k].ptr = built[i].ptr
        \/ \E m \in 1..Len(root.Elements[k].Elements) :
              root.Elements[k].Elements[m].ptr = built[i].ptr

\* an output element is the input element with at most its layout hints removed
SameButLayout(out, in) ==
    /\ [out EXCEPT !.Options = NilOptions] = [in EXCEPT !.Options = NilOptions]
    /\ DOMAIN out.Options.m = DOMAIN in.Options.m \ {"layout", "layoutGroup"}
    /\ \A k \in DOMAIN out.Options.m : out.Options.m[k] = in.Options.m[k]

\* a HorizontalLayout created by the pass: nothing but children
IsWrapper(el) ==
    /\ el.Type = "HorizontalLayout"
    /\ el.Options.nil /\ el.Rule.nil /\ el.Label = "" /\ el.Scope = "" /\ el.I18n = ""
    /\ \A i \in 1..Len(built) : built[i].ptr # el.ptr

\* C4: the output of the grouping pass holds every input node exactly once, at
\* the top level or inside exactly one new HorizontalLayout; only wrappers are
\* added, and inside a wrapper the members keep their input order.
C4_GroupingKeepsEveryNode ==
    pc = "grouped" =>
        LET out == root.Elements
            leaves == Flatten(out)
        IN  /\ Len(leaves) = Len(built)
            /\ \A i \in 1..Len(built) :
                  /\ Cardinality({k \in 1..Len(leaves) : leaves[k].ptr = built[i].ptr}) = 1
                  /\ \A k \in 1..Len(leaves) :
                        leaves[k].ptr = built[i].ptr => SameButLayout(leaves[k], built[i])
            /\ \A k \in 1..Len(out) :
                  \/ \E i \in 1..Len(built) : built[i].ptr = out[k].ptr
                  \/ /\ IsWrapper(out[k])
                     /\ \A a, b \in 1..Len(out[k].Elements) :
                           a < b => InputIndex(out[k].Elements[a].ptr)
                                       < InputIndex(out[k].Elements[b].ptr)

C4_Witness ==
    /\ pc = "grouped"
    /\ \E k, j \in 1..Len(root.Elements) :
          /\ IsWrapper(root.Elements[k])
          /\ Len(root.Elements[k].Elements) >= 2
          /\ InputIndex(root.Elements[k].Elements[2].ptr)
                > InputIndex(root.Elements[k].Elements[1].ptr) + 1
          /\ root.Elements[j].Type = "Control"

\* C5 as stated: the unit of a named group stands where the group's first member
\* stood: every earlier sibling is emitted before the unit and every later
\* sibling that is not a member is emitted after it.
C5_UnitAtFirstMember ==
    pc = "grouped" =>
        \A g \in GroupNames : \A x \in 1..Len(built) :
            /\ x < FirstOf(g) => UnitPos(x) < UnitPos(FirstOf(g))
            /\ (x > FirstOf(g) /\ x \notin MembersOf(g)) => UnitPos(x) > UnitPos(FirstOf(g))

\* x belongs to a named group whose first member stands before the first member of g
InEarlierGroup(x, g) ==
    \E h \in GroupNames : x \in MembersOf(h) /\ FirstOf(h) < FirstOf(g)

\* C5 amended: every earlier sibling is emitted before the unit of g, and every
\* later non-member is emitted after it, except the members of a named group that
\* started before g: those are emitted in their own group's unit, before g's.
C5_UnitAtFirstMemberAmended ==
    pc = "grouped" =>
        \A g \in GroupNames : \A x \in 1..Len(built) :
            /\ x < FirstOf(g) => UnitPos(x) < UnitPos(FirstOf(g))
            /\ (x > FirstOf(g) /\ x \notin MembersOf(g) /\ ~InEarlierGroup(x, g))
                  => UnitPos(x) > UnitPos(FirstOf(g))
            /\ (x > FirstOf(g) /\ InEarlierGroup(x, g))
                  => UnitPos(x) < UnitPos(FirstOf(g))

C5_Witness ==
    /\ pc = "grouped"
    /\ \E g \in GroupNames : \E x, y, z \in 1..Len(built) :
          /\ x < FirstOf(g)
          /\ LayoutModeOf(built[x]) = "unnamed"
          /\ FirstOf(g) < y /\ y < z
          /\ y \notin MembersOf(g)
          /\ z \in MembersOf(g)
          /\ UnitPos(z) = UnitPos(FirstOf(g))
          /\ UnitPos(y) > UnitPos(z)

\* the maximal runs of consecutive unnamed-horizontal siblings, as index sequences
RunFrom(i) ==
    LET j == CHOOSE e \in i..Len(built) :
                /\ \A k \in i..e : LayoutModeOf(built[k]) = "unnamed"
                /\ (e = Len(built) \/ LayoutModeOf(built[e + 1]) # "unnamed")
    IN  [k \in 1..(j - i + 1) |-> i + k - 1]

UnnamedRuns ==
    {RunFrom(i) : i \in {j \in 1..Len(built) :
                            /\ LayoutModeOf(built[j]) = "unnamed"
                            /\ (j = 1 \/ LayoutModeOf(built[j - 1]) # "unnamed")}}

RECURSIVE Ascending(_)
\* the members of a finite set of numbers in ascending order
Ascending(S) ==
    IF S = {} THEN <<>>
    ELSE LET m == CHOOSE i \in S : \A j \in S : i <= j
         IN  <<m>> \o Ascending(S \ {m})

NamedUnits == {Ascending(MembersOf(g)) : g \in GroupNames}

Units == UnnamedRuns \cup NamedUnits

UnitPtrs(u) == [k \in 1..Len(u) |-> built[u[k]].ptr]

\* C6: the units are the buckets of the group names and the maximal runs of
\* consecutive unnamed-horizontal siblings; a unit of one member is emitted as
\* that member, unwrapped, and a unit of two or more as exactly one
\* HorizontalLayout holding exactly its members; there is no other wrapper.
C6_UnitsAndWrappers ==
    pc = "grouped" =>
        LET out == root.Elements
        IN  /\ \A u \in Units :
                  IF Len(u) = 1
                  THEN \E k \in 1..Len(out) : out[k].ptr = built[u[1]].ptr
                  ELSE Cardinality({k \in 1..Len(out) :
                                      /\ out[k].Type = "HorizontalLayout"
                                      /\ Ptrs(out[k].Elements) = UnitPtrs(u)}) = 1
            /\ \A k \in 1..Len(out) :
                  out[k].Type = "HorizontalLayout" =>
                      \E u \in Units : Len(u) >= 2 /\ Ptrs(out[k].Elements) = UnitPtrs(u)

C6_Witness ==
    /\ pc = "grouped"
    /\ \E u \in NamedUnits : Len(u) = 1
    /\ \E u \in UnnamedRuns :
          /\ Len(u) >= 2
          /\ u[Len(u)] < Len(built)
          /\ LayoutModeOf(built[u[Len(u)] + 1]) \notin {"none", "unnamed"}
    /\ \E u \in UnnamedRuns : Len(u) = 1

---------------------------------------------------------------------------
(* Properties of GenerateUISchemaWithOptions, checked under Spec *)

RECURSIVE AllNodes(_)
\* the element and all its descendants
AllNodes(el) == {el} \cup UNION {AllNodes(el.Elements[i]) : i \in 1..Len(el.Elements)}

HintKeys ==
    {"category", "categoryRuleEffect", "categoryRuleExpr", "categoryI18n",
     "layout", "layoutGroup"}

\* C1: in the returned tree no options map holds one of the six hint keys.
C1_NoHintKeys ==
    pc = "done" =>
        \A n \in AllNodes(root) : n.Options.nil \/ DOMAIN n.Options.m \cap HintKeys = {}

\* the bucket name of a root sibling as built: its category hint, or "Other"
CategoryOf(el) ==
    IF ~el.Options.nil /\ "category" \in DOMAIN el.Options.m /\ el.Options.m["category"] # ""
    THEN el.Options.m["category"] ELSE "Other"

HasRuleHint(el) ==
    /\ ~el.Options.nil
    /\ {"categoryRuleEffect", "categoryRuleExpr"} \subseteq DOMAIN el.Options.m

\* the root siblings, as built, of the bucket `name` that carry a rule hint pair
RuleCarriers(name) ==
    {i \in 1..Len(built) : CategoryOf(built[i]) = name /\ HasRuleHint(built[i])}

\* C3: when a member of a category's bucket carries a rule hint pair, the
\* Category's rule is the one decoded from the first such member in field order.
C3_RuleFromFirstCarrier ==
    (pc = "done" /\ root.Type = "Categorization") =>
        \A k \in 1..Len(root.Elements) :
            LET carriers == RuleCarriers(root.Elements[k].ptr[2])
                first == CHOOSE i \in carriers : \A j \in carriers : i <= j
            IN  carriers # {} =>
                    root.Elements[k].Rule =
                        ParseFormRuleExpression(built[first].Options.m["categoryRuleExpr"],
                                                built[first].Options.m["categoryRuleEffect"])

\* the list an element was built into: the path of its parent
ParentOf(p) == SubSeq(p, 1, Len(p) - 1)

\* C7: a HorizontalLayout of the returned tree only holds elements built from
\* fields of one record at one nesting level.
C7_GroupingWithinOneList ==
    pc = "done" =>
        \A n \in AllNodes(root) :
            n.Type = "HorizontalLayout" =>
                \A a, b \in 1..Len(n.Elements) :
                    ParentOf(n.Elements[a].ptr) = ParentOf(n.Elements[b].ptr)

C7_Witness ==
    /\ pc = "done"
    /\ \E i, j \in 1..Len(built) :
          /\ LayoutModeOf(built[i]) = "g"
          /\ built[j].Type = "Group"
          /\ \E m \in 1..Len(built[j].Elements) :
                /\ built[j].Elements[m].Type = "HorizontalLayout"
                /\ Len(built[j].Elements[m].Elements) = 2
    /\ \E n \in AllNodes(root) : n.Type = "Group" /\ Len(n.Elements) = 1

RECURSIVE FirstOccurrences(_, _)
\* the distinct members of a sequence in the order of their first occurrence
FirstOccurrences(seq, seen) ==
    IF seq = <<>> THEN <<>>
    ELSE IF Head(seq) \in seen THEN FirstOccurrences(Tail(seq), seen)
    ELSE <<Head(seq)>> \o FirstOccurrences(Tail(seq), seen \cup {Head(seq)})

\* C8: the Categories stand in the order in which their names first occur among
\* the root siblings, each name once; "Other" has no special place.
C8_CategoryOrder ==
    (pc = "done" /\ root.Type = "Categorization") =>
        /\ [k \in 1..Len(root.Elements) |-> root.Elements[k].ptr[2]]
              = FirstOccurrences([i \in 1..Len(built) |-> CategoryOf(built[i])], {})
        /\ \A k \in 1..Len(root.Elements) :
              /\ root.Elements[k].Type = "Category"
              /\ root.Elements[k].Label = root.Elements[k].ptr[2]

C8_Witness ==
    /\ pc = "done"
    /\ root.Type = "Categorization"
    /\ Len(root.Elements) = 3
    /\ root.Elements[2].Label = "Other"
    /\ root.Elements[3].Label = "A"

\* C9: without a category hint on a root sibling the result is a VerticalLayout
\* of the grouped root siblings, with no Categorization or Category anywhere.
C9_NoCategoryIsVertical ==
    (pc = "done" /\ \A i \in 1..Len(built) : CategoryOf(built[i]) = "Other") =>
        /\ root.Type = "VerticalLayout"
        /\ root.Elements = groupHorizontalElements(built)
        /\ \A n \in AllNodes(root) : n.Type \notin {"Categorization", "Category"}

C9_Witness ==
    /\ pc = "done"
    /\ Len(built) = 3
    /\ \A i \in 1..Len(built) : CategoryOf(built[i]) = "Other"
    /\ \E i \in 1..Len(built) : ~built[i].Options.nil
    /\ \E k \in 1..Len(root.Elements) : root.Elements[k].Type = "HorizontalLayout"
    /\ \E k \in 1..Len(root.Elements) : root.Elements[k].Type = "Group"

\* a top-level field that the form tag or the role permissions hide
HiddenField(f) ==
    \/ f.Form.Hidden
    \/ /\ opts.Role # ""
       /\ opts.Role \in DOMAIN opts.RolePermissions
       /\ f.Name \in DOMAIN opts.RolePermissions[opts.Role]
       /\ opts.RolePermissions[opts.Role][f.Name] = 2

\* C10: the root is a VerticalLayout or a Categorization, and a Categorization
\* exactly when a top-level field that is not hidden has a non-empty category
\* (the fields are those of the JSON object: exported, and not named "-").
C10_RootKind ==
    pc = "done" =>
        /\ root.Type \in {"VerticalLayout", "Categorization"}
        /\ root.Type = "Categorization" <=>
              \E i \in 1..Len(input) :
                  /\ input[i].Exported /\ input[i].Name # "-"
                  /\ ~HiddenField(input[i])
                  /\ input[i].Form.Category # ""

C10_Witness ==
    /\ pc = "done"
    /\ root.Type = "VerticalLayout"
    /\ Len(root.Elements) >= 1
    /\ \E i \in 1..Len(input) :
          input[i].Form.Category # "" /\ ~input[i].Form.Hidden /\ HiddenField(input[i])
    /\ \E i \in 1..Len(input) : input[i].Form.Category # "" /\ input[i].Form.Hidden

---------------------------------------------------------------------------
(* Category i18n, options maps *)

HasI18nHint(el) ==
    /\ ~el.Options.nil
    /\ "categoryI18n" \in DOMAIN el.Options.m
    /\ el.Options.m["categoryI18n"] # ""

\* the root siblings, as built, of the bucket `name` that carry a categoryI18n hint
I18nCarriers(name) ==
    {i \in 1..Len(built) : CategoryOf(built[i]) = name /\ HasI18nHint(built[i])}

\* C11: when a member of a category's bucket carries a categoryI18n hint, the
\* Category's i18n key is the key of the first such member in field order and
\* its label is what translateLabel gives for that key (the bucket name without
\* translator or locale), whatever layout hints the members carry.
C11_I18nFromFirstCarrier ==
    (pc = "done" /\ root.Type = "Categorization") =>
        \A k \in 1..Len(root.Elements) :
            LET name == root.Elements[k].ptr[2]
                carriers == I18nCarriers(name)
                first == CHOOSE i \in carriers : \A j \in carriers : i <= j
                key == built[first].Options.m["categoryI18n"]
            IN  carriers # {} =>
                    /\ root.Elements[k].I18n = key
                    /\ root.Elements[k].Label = translateLabel(name, key, opts)

\* C12: in the returned tree every options map is absent (nil) or non-empty.
C12_OptionsNilOrNonEmpty ==
    pc = "done" =>
        \A n \in AllNodes(root) : n.Options.nil \/ DOMAIN n.Options.m # {}

\* a root sibling built with exactly the option keys ks has no options map in the result
LostAllOptions(ks) ==
    \E i \in 1..Len(built) :
        /\ ~built[i].Options.nil
        /\ DOMAIN built[i].Options.m = ks
        /\ \E n \in AllNodes(root) : n.ptr = built[i].ptr /\ n.Options.nil

C12_Witness ==
    /\ pc = "done"
    /\ root.Type = "Categorization"
    /\ LostAllOptions({"category"})
    /\ LostAllOptions({"category", "layout"})
    /\ LostAllOptions({"category", "categoryRuleEffect", "categoryRuleExpr"})

---------------------------------------------------------------------------
(* Fields whose type is a slice or array of structs *)

MaxDetailFields == 2
MaxElemFields == 2

\* the shapes of the root fields: plain fields and slices of structs
DetailShapes ==
    [kind : {"prim", "slice"}, cat : {"", "A"}, lay : {"none", "unnamed"},
     rule : {FALSE}, i18n : {FALSE}, ro : {FALSE}, hidden : {FALSE}, exported : {TRUE}]

\* the shapes of the fields of the slice's element struct
ElemShapes ==
    [kind : {"prim"}, cat : {""}, lay : {"none"},
     rule : {FALSE}, i18n : {FALSE}, ro : BOOLEAN, hidden : BOOLEAN, exported : {TRUE}]

\* a struct whose slice fields all have the element type elem
DetailStructOf(shapes, elem) ==
    [i \in 1..Len(shapes) |->
        IF shapes[i].kind = "slice"
        THEN [FieldOf(FieldNames, i, shapes[i], <<>>) EXCEPT !.Fields = elem]
        ELSE FieldOf(FieldNames, i, shapes[i], <<>>)]

InitDetail ==
    /\ pc = "start"
    /\ \E k \in 1..MaxDetailFields : \E sh \in [1..k -> DetailShapes] :
          \E n \in 0..MaxElemFields : \E esh \in [1..n -> ElemShapes] :
              input = DetailStructOf(sh, StructOf(NestedNames, esh, <<>>))
    /\ opts = DefaultOptions
    /\ root = NewVerticalLayout
    /\ built = <<>>
    /\ catInput = <<>>
    /\ catOrder = <<>>
    /\ catMap = <<>>
    /\ catNext = 0
    /\ catRuns = 0
    /\ groupRuns = 0
    /\ IdleExtra

SpecDetail == InitDetail /\ [][Next]_vars

\* the fields of a struct type that produce a node
VisibleFields(t) ==
    SelectSeq(t, LAMBDA f : f.Exported /\ f.Name # "-" /\ ~isFieldHidden(f.Name, f.Form, opts))

\* C13: a slice-of-structs field whose element has a visible field produces a
\* Control whose options.detail is a VerticalLayout with one node per visible
\* element field, scoped #/properties/<elementField>.
C13_ArrayDetail ==
    pc = "done" =>
        \A i \in 1..Len(input) :
            (input[i].Kind = "slice" /\ VisibleFields(input[i].Fields) # <<>>) =>
                \E c \in AllNodes(root) :
                    /\ c.ptr = <<input[i].Name>>
                    /\ c.Type = "Control"
                    /\ HasOpt(c, "detail")
                    /\ LET d == c.Options.m["detail"]
                           vis == VisibleFields(input[i].Fields)
                       IN  /\ d.Type = "VerticalLayout"
                           /\ Len(d.Elements) = Len(vis)
                           /\ \A k \in 1..Len(vis) :
                                 d.Elements[k].Scope = "#/properties/" \o vis[k].Name

---------------------------------------------------------------------------
(* Hidden fields and role permissions *)

MaxAccessFields == 2
MaxAccessNested == 1

\* the options of the access cases: no role; a role without an entry in the
\* table; a role whose entry hides f1 and n1 and makes f2 read-only; a role whose
\* entry gives f1 full access; no role although the table has an entry for ""
AccessOptions ==
    { DefaultOptions,
      [DefaultOptions EXCEPT !.Role = "viewer",
          !.RolePermissions = ("admin" :> ("f1" :> AccessHidden @@ "f2" :> AccessReadOnly))],
      [DefaultOptions EXCEPT !.Role = "viewer",
          !.RolePermissions = ("viewer" :> ("f1" :> AccessHidden @@ "f2" :> AccessReadOnly
                                            @@ "n1" :> AccessHidden))],
      [DefaultOptions EXCEPT !.Role = "viewer",
          !.RolePermissions = ("viewer" :> ("f1" :> AccessReadWrite @@ "n1" :> AccessReadOnly))],
      [DefaultOptions EXCEPT
          !.RolePermissions = ("" :> ("f1" :> AccessHidden @@ "f2" :> AccessReadOnly))] }

AccessShapes ==
    [kind : {"prim"}, cat : {"", "A"}, lay : {"none", "g"},
     rule : {FALSE}, i18n : {FALSE}, ro : {FALSE}, hidden : BOOLEAN, exported : {TRUE}]
    \cup
    [kind : {"struct"}, cat : {"", "A"}, lay : {"none"},
     rule : {FALSE}, i18n : {FALSE}, ro : {FALSE}, hidden : BOOLEAN, exported : {TRUE}]

AccessNestedShapes ==
    [kind : {"prim"}, cat : {""}, lay : {"none"},
     rule : {FALSE}, i18n : {FALSE}, ro : BOOLEAN, hidden : BOOLEAN, exported : {TRUE}]

InitAccess ==
    /\ pc = "start"
    /\ \E k \in 1..MaxAccessFields : \E sh \in [1..k -> AccessShapes] :
          \E n \in 0..(IF HasStruct(sh) THEN MaxAccessNested ELSE 0) :
              \E nsh \in [1..n -> AccessNestedShapes] :
                  input = StructOf(FieldNames, sh, StructOf(NestedNames, nsh, <<>>))
    /\ opts \in AccessOptions
    /\ root = NewVerticalLayout
    /\ built = <<>>
    /\ catInput = <<>>
    /\ catOrder = <<>>
    /\ catMap = <<>>
    /\ catNext = 0
    /\ catRuns = 0
    /\ groupRuns = 0
    /\ IdleExtra

SpecAccess == InitAccess /\ [][Next]_vars

RECURSIVE WithoutHidden(_)
\* the struct type without the fields the form tag or the role hides, at every level
WithoutHidden(t) ==
    IF t = <<>> THEN <<>>
    ELSE IF HiddenField(Head(t)) THEN WithoutHidden(Tail(t))
    ELSE <<[Head(t) EXCEPT !.Fields = WithoutHidden(Head(t).Fields)]>>
             \o WithoutHidden(Tail(t))

HasNode(p) == \E n \in AllNodes(root) : n.ptr = p

\* role permissions apply: a role is set and the table has an entry for it
RoleApplies == opts.Role # "" /\ opts.Role \in DOMAIN opts.RolePermissions

\* C14: a field (of a record whose own node exists) has no node exactly when
\* the form tag or the role's Hidden permission hides it, and it leaves no
\* trace: the tree is the one of the record without its hidden fields; without
\* a role, or without a table entry for the role, the tree is the one built
\* with no role permissions at all.
C14_HiddenLeavesNoTrace ==
    pc = "done" =>
        /\ \A i \in 1..Len(input) :
              /\ HasNode(<<input[i].Name>>) <=> ~HiddenField(input[i])
              /\ \A j \in 1..Len(input[i].Fields) :
                    HasNode(<<input[i].Name, input[i].Fields[j].Name>>)
                        <=> (~HiddenField(input[i]) /\ ~HiddenField(input[i].Fields[j]))
        /\ root = GenerateUISchemaWithOptions(WithoutHidden(input), opts)
        /\ ~RoleApplies =>
              root = GenerateUISchemaWithOptions(input,
                         [opts EXCEPT !.Role = "", !.RolePermissions = <<>>])

C14_Witness ==
    /\ pc = "done"
    /\ RoleApplies
    /\ Len(input) = 2
    /\ ~input[1].Form.Hidden /\ HiddenField(input[1])
    /\ input[1].Form.Category = "A" /\ input[1].Form.LayoutGroup = "g"
    /\ input[2].Form.LayoutGroup = "g" /\ input[2].Form.Category = ""
    /\ root.Type = "VerticalLayout"
    /\ Len(root.Elements) = 1
    /\ root.Elements[1].Type = "Control"
    /\ HasOpt(root.Elements[1], "readonly")

---------------------------------------------------------------------------
(* Rule tags and category rule directives *)

MaxRuleFields == 1
MaxRuleNested == 2

\* the rule tags of a field: visibleIf valid or without separator, enableIf
\* with an empty field name
TagChoices ==
    {[DefaultTags EXCEPT !.VisibleIf = v, !.HideIf = h, !.EnableIf = e, !.DisableIf = d] :
        v \in {"", "a=true", "d"}, h \in {"", "b=1"}, e \in {"", "=e"}, d \in {"", "a=true"}}

\* the rule directives of a form tag
FormRuleChoices ==
    {[DefaultForm EXCEPT !.VisibleIf = v, !.HideIf = h, !.EnableIf = e, !.DisableIf = d] :
        v \in {"", "a:true", ":e"}, h \in {"", "b:1"}, e \in {"", "d"}, d \in {"", "c: x"}}

RuleShapes ==
    [kind : {"prim", "struct"}, tags : TagChoices,
     form : {DefaultForm, [DefaultForm EXCEPT !.Category = "A"]}]
    \cup
    [kind : {"prim", "struct"}, tags : {DefaultTags},
     form : {[f EXCEPT !.Category = "A"] : f \in FormRuleChoices}]

RuleNestedShapes ==
    [kind : {"prim"}, tags : {DefaultTags, [DefaultTags EXCEPT !.HideIf = "b=1"]},
     form : {DefaultForm}]

RuleStructOf(names, shapes, nested) ==
    [i \in 1..Len(shapes) |->
        [NewField(names[i], shapes[i].kind, shapes[i].form,
                  IF shapes[i].kind = "struct" THEN nested ELSE <<>>)
            EXCEPT !.Tags = shapes[i].tags]]

InitRules ==
    /\ pc = "start"
    /\ \E k \in 1..MaxRuleFields : \E sh \in [1..k -> RuleShapes] :
          \E n \in 0..(IF HasStruct(sh) THEN MaxRuleNested ELSE 0) :
              \E nsh \in [1..n -> RuleNestedShapes] :
                  input = RuleStructOf(FieldNames, sh, RuleStructOf(NestedNames, nsh, <<>>))
    /\ opts = DefaultOptions
    /\ root = NewVerticalLayout
    /\ built = <<>>
    /\ catInput = <<>>
    /\ catOrder = <<>>
    /\ catMap = <<>>
    /\ catNext = 0
    /\ catRuns = 0
    /\ groupRuns = 0
    /\ IdleExtra

SpecRules == InitRules /\ [][Next]_vars

\* the effect and text of the first non-empty of visibleIf, hideIf, enableIf,
\* disableIf in a record of tags or of form options; <<"", "">> when all are empty
FirstRuleTag(r) ==
    IF r.VisibleIf # "" THEN <<"SHOW", r.VisibleIf>>
    ELSE IF r.HideIf # "" THEN <<"HIDE", r.HideIf>>
    ELSE IF r.EnableIf # "" THEN <<"ENABLE", r.EnableIf>>
    ELSE IF r.DisableIf # "" THEN <<"DISABLE", r.DisableIf>>
    ELSE <<"", "">>

\* the record with every tag after the first non-empty one erased
OnlyFirstTag(r) ==
    IF r.VisibleIf # "" THEN [r EXCEPT !.HideIf = "", !.EnableIf = "", !.DisableIf = ""]
    ELSE IF r.HideIf # "" THEN [r EXCEPT !.EnableIf = "", !.DisableIf = ""]
    ELSE IF r.EnableIf # "" THEN [r EXCEPT !.DisableIf = ""]
    ELSE r

RECURSIVE OnlyFirstTags(_)
OnlyFirstTags(t) ==
    [i \in 1..Len(t) |->
        [t[i] EXCEPT !.Tags = OnlyFirstTag(t[i].Tags), !.Form = OnlyFirstTag(t[i].Form),
                     !.Fields = OnlyFirstTags(t[i].Fields)]]

\* the field of the input record at a path of one or two JSON names
FieldAt(p) ==
    LET top == CHOOSE i \in 1..Len(input) : input[i].Name = p[1]
    IN  IF Len(p) = 1 THEN input[top]
        ELSE LET sub == input[top].Fields
             IN  sub[CHOOSE j \in 1..Len(sub) : sub[j].Name = p[2]]

\* C15: the rule of a Control or Group is the one decoded from the first
\* non-empty of visibleIf, hideIf, enableIf, disableIf; the tags after it change
\* nothing in the tree; the category rule hint a root sibling is built with is
\* the first non-empty form directive in the same order.
C15_FirstRuleTagWins ==
    /\ pc = "done" =>
          /\ \A n \in AllNodes(root) :
                n.Type \in {"Control", "Group"} =>
                    LET pick == FirstRuleTag(FieldAt(n.ptr).Tags)
                    IN  n.Rule = IF pick[2] = "" THEN NilRule
                                 ELSE ParseRuleExpression(pick[2], pick[1])
          /\ root = GenerateUISchemaWithOptions(OnlyFirstTags(input), opts)
    /\ pc # "start" =>
          \A i \in 1..Len(built) :
              LET pick == FirstRuleTag(FieldAt(built[i].ptr).Form)
              IN  IF pick[2] = ""
                  THEN ~HasOpt(built[i], "categoryRuleEffect")
                          /\ ~HasOpt(built[i], "categoryRuleExpr")
                  ELSE /\ OptString(built[i], "categoryRuleEffect") = pick[1]
                       /\ OptString(built[i], "categoryRuleExpr") = pick[2]

C15_Witness ==
    /\ pc = "done"
    /\ input[1].Kind = "struct"
    /\ input[1].Tags.VisibleIf = ""
    /\ input[1].Tags.HideIf = "b=1"
    /\ input[1].Tags.EnableIf = "=e"
    /\ input[1].Tags.DisableIf = "a=true"
    /\ root.Type = "VerticalLayout"
    /\ root.Elements[1].Type = "Group"
    /\ ~root.Elements[1].Rule.nil
    /\ root.Elements[1].Rule.Effect = "HIDE"
    /\ root.Elements[1].Rule.Scope = "#/properties/b"

---------------------------------------------------------------------------
(* parseConditionValue on condition values *)

MaxTokens == 3

\* the pieces the condition values are made of
LiteralTokens ==
    { <<"0">>, <<"1">>, <<"5">>, <<"-">>, <<".">>, <<"t">>, <<"f">>, <<"x">>,
      <<"t", "r", "u", "e">>, <<"f", "a", "l", "s", "e">>, <<"T", "R", "U", "E">> }

RECURSIVE Concat(_)
Concat(ss) == IF ss = <<>> THEN <<>> ELSE Head(ss) \o Concat(Tail(ss))

\* no synthesis call is going on
IdleCall ==
    /\ input = <<>>
    /\ opts = DefaultOptions
    /\ root = NewVerticalLayout
    /\ built = <<>>
    /\ catInput = <<>>
    /\ catOrder = <<>>
    /\ catMap = <<>>
    /\ catNext = 0
    /\ catRuns = 0
    /\ groupRuns = 0

InitLiteral ==
    /\ pc = "literal"
    /\ \E k \in 0..MaxTokens : \E ts \in [1..k -> LiteralTokens] : text = Concat(ts)
    /\ parsed = <<>>
    /\ jschema = <<>>
    /\ calls = <<>>
    /\ shared = <<>>
    /\ IdleCall

\* condValue := parseConditionValue(rawValue)
CoerceLiteral ==
    /\ pc = "literal"
    /\ parsed' = parseConditionValue(text)
    /\ pc' = "coerced"
    /\ UNCHANGED <<input, opts, root, built, catInput, catOrder, catMap, catNext,
                   catRuns, groupRuns, text, jschema, calls, shared>>

NextLiteral == CoerceLiteral

SpecLiteral == InitLiteral /\ [][NextLiteral]_vars

\* C16: the literal is a boolean only for the texts true and false; every
\* base-10 integer text, 0 and 1 included, gives that integer; every other
\* numeric text gives a float; anything else gives the text itself.
C16_LiteralCoercion ==
    pc = "coerced" =>
        IF text = <<"t", "r", "u", "e">> THEN parsed.kind = "bool" /\ parsed.b
        ELSE IF text = <<"f", "a", "l", "s", "e">> THEN parsed.kind = "bool" /\ ~parsed.b
        ELSE IF IsInt(text) THEN parsed.kind = "int" /\ parsed.n = IntVal(text)
        ELSE IF IsFloat(text) THEN parsed.kind = "float" /\ parsed.s = Str(text)
        ELSE parsed.kind = "string" /\ parsed.s = Str(text)

\* the expression is empty, has none of the separators, or has an empty
\* (blank) field name before its first separator
MalformedExpr(cs, seps) ==
    \/ cs = <<>>
    \/ \A i \in 1..Len(cs) : cs[i] \notin seps
    \/ LET first == CHOOSE i \in 1..Len(cs) :
                        cs[i] \in seps /\ \A j \in 1..(i - 1) : cs[j] \notin seps
       IN  \A j \in 1..(first - 1) : cs[j] = " "

\* C17: a Control or Group whose deciding rule tag is malformed has no rule; a
\* Category all of whose rule hints are malformed has no rule; and the call
\* always goes on to return a tree (every step before the return can be taken).
C17_MalformedRuleIsNoRule ==
    /\ pc = "done" =>
          \A n \in AllNodes(root) :
              n.Type \in {"Control", "Group"} =>
                  LET pick == FirstRuleTag(FieldAt(n.ptr).Tags)
                  IN  (pick[2] = "" \/ MalformedExpr(Chars[pick[2]], {"="})) => n.Rule.nil
    /\ (pc = "done" /\ root.Type = "Categorization") =>
          \A k \in 1..Len(root.Elements) :
              (\A i \in RuleCarriers(root.Elements[k].ptr[2]) :
                    MalformedExpr(Chars[built[i].Options.m["categoryRuleExpr"]], {":", "="}))
                  => root.Elements[k].Rule.nil
    /\ pc \in {"start", "built", "bucket", "finish", "group", "done"}
    /\ pc = "finish" => catNext \in 1..Len(catOrder)

C17_Witness ==
    /\ pc = "done"
    /\ root.Type = "Categorization"
    /\ input[1].Form.VisibleIf = ":e"
    /\ input[1].Form.HideIf = "b:1"
    /\ input[1].Form.EnableIf = "d"
    /\ root.Elements[1].Type = "Category"
    /\ root.Elements[1].Rule.nil
    /\ root.Elements[1].Elements[1].Options.nil

\* the rule a field's own rule tags give
OwnRule(f) ==
    LET pick == FirstRuleTag(f.Tags)
    IN  IF pick[2] = "" THEN NilRule ELSE ParseRuleExpression(pick[2], pick[1])

\* C18: the rule of a nested-record field's tag sits on the field's Group; a
\* node below the Group has a rule only when its own field has a rule tag, and
\* then it is that tag's rule.
C18_GroupRuleOnGroupOnly ==
    pc = "done" =>
        \A g \in AllNodes(root) :
            g.Type = "Group" =>
                /\ g.Rule = OwnRule(FieldAt(g.ptr))
                /\ \A d \in AllNodes(g) \ {g} :
                      /\ d.Type \in {"Control", "Group"} => d.Rule = OwnRule(FieldAt(d.ptr))
                      /\ d.Type \notin {"Control", "Group"} => d.Rule.nil
                      /\ FirstRuleTag(FieldAt(d.ptr).Tags)[2] = "" => d.Rule.nil

C18_Witness ==
    /\ pc = "done"
    /\ root.Type = "VerticalLayout"
    /\ input[1].Kind = "struct"
    /\ input[1].Tags.VisibleIf = "a=true"
    /\ Len(input[1].Fields) = 2
    /\ input[1].Fields[1].Tags = DefaultTags
    /\ input[1].Fields[2].Tags.HideIf = "b=1"
    /\ root.Elements[1].Type = "Group"
    /\ root.Elements[1].Rule.Effect = "SHOW"
    /\ root.Elements[1].Elements[1].Rule.nil
    /\ root.Elements[1].Elements[2].Rule.Effect = "HIDE"

---------------------------------------------------------------------------
(* JSON Schema generation from the same struct type (struct_parser.go) *)

MaxSchemaFields == 2
MaxSchemaNested == 2
MaxSchemaDeep == 1

\* schema.JSONSchema, as far as struct parsing fills it; Items and
\* AdditionalProperties are <<>> or hold the one schema
NewSchema(type) ==
    [Schema |-> "", Type |-> type, Format |-> "", Properties |-> <<>>,
     Required |-> <<>>, Items |-> <<>>, AdditionalProperties |-> <<>>]

\* i18n.go lines 77-83
DraftURL(o) ==
    IF o.Draft = "2019-09" THEN "https://json-schema.org/draft/2019-09/schema"
    ELSE "http://json-schema.org/draft-07/schema#"

\* lines 77-114, for the format tag
applyTags(prop, tags) ==
    IF tags.Format # "" THEN [prop EXCEPT !.Format = tags.Format] ELSE prop

RECURSIVE parseStructFields(_, _)
RECURSIVE typeToSchema(_)

\* lines 133-192; a pointer is unwrapped by the caller of the model's field
\* kinds, which name the type behind it
typeToSchema(field) ==
    IF field.Kind = "time" THEN [NewSchema("string") EXCEPT !.Format = "date-time"]
    ELSE IF field.Kind = "string" THEN NewSchema("string")
    ELSE IF field.Kind = "bool" THEN NewSchema("boolean")
    ELSE IF field.Kind = "int" THEN NewSchema("integer")
    ELSE IF field.Kind = "float" THEN NewSchema("number")
    ELSE IF field.Kind = "slice" THEN
        [NewSchema("array") EXCEPT
            !.Items = <<parseStructFields(field.Fields, NewSchema("object"))>>]
    ELSE IF field.Kind = "map" THEN
        [NewSchema("object") EXCEPT
            !.AdditionalProperties =
                <<parseStructFields(field.Fields, NewSchema("object"))>>]
    ELSE IF field.Kind = "struct" THEN parseStructFields(field.Fields, NewSchema("object"))
    ELSE NewSchema("string")

\* lines 47-74: s.Properties[name] = prop replaces an earlier property of the
\* same name
parseStructFields(t, s) ==
    IF t = <<>> THEN s
    ELSE
        LET field == Head(t)
            name == field.Name
        IN  IF ~field.Exported \/ name = "-" THEN parseStructFields(Tail(t), s)
            ELSE
                LET prop == applyTags(typeToSchema(field), field.Tags)
                    req == IF field.Tags.Required THEN Append(s.Required, name)
                           ELSE s.Required
                IN  parseStructFields(Tail(t),
                        [s EXCEPT !.Properties = (name :> prop) @@ s.Properties,
                                  !.Required = req])

\* lines 27-44
GenerateJSONSchemaWithOptions(t, o) ==
    parseStructFields(t, [NewSchema("object") EXCEPT !.Schema = DraftURL(o)])

\* the tags of the fields of SpecSchema
SchemaTags(required, format) ==
    [Required |-> required, Format |-> format] @@ DefaultTags

SchemaOptions ==
    {[Draft |-> d] @@ DefaultOptions : d \in {"draft-07", "2019-09"}}

\* JSON names of the root fields; two fields of one struct may carry the same
\* json tag
SchemaNames == {"x", "y"}
SchemaNestedNames == {"n1", "n2"}

\* visible fields of every kind, and string fields the UI Schema leaves out
SchemaShapes ==
    [name : SchemaNames, kind : {"string", "time", "slice", "struct"},
     cat : {"", "A"}, hidden : {FALSE}, exported : {TRUE}]
    \cup
    [name : SchemaNames, kind : {"string"}, cat : {""},
     hidden : {TRUE}, exported : {TRUE}]
    \cup
    [name : SchemaNames \cup {"-"}, kind : {"string"}, cat : {""},
     hidden : {FALSE}, exported : {FALSE}]
    \cup
    [name : {"-"}, kind : {"int"}, cat : {""}, hidden : {FALSE}, exported : {TRUE}]

SchemaNestedShapes ==
    [name : SchemaNestedNames, kind : {"string", "struct"},
     cat : {""}, hidden : {FALSE}, exported : {TRUE}]

SchemaDeepShapes ==
    [name : {"d1"}, kind : {"bool"}, cat : {""}, hidden : {FALSE}, exported : {TRUE}]

\* a struct type whose struct and slice fields all have the type nested
SchemaStructOf(shapes, nested) ==
    [i \in 1..Len(shapes) |->
        [Name |-> shapes[i].name, GoName |-> FieldNames[i],
         Exported |-> shapes[i].exported, Kind |-> shapes[i].kind,
         Form |-> [DefaultForm EXCEPT !.Category = shapes[i].cat,
                                      !.Hidden = shapes[i].hidden],
         Tags |-> SchemaTags(i = 1, IF shapes[i].kind = "string" THEN "email" ELSE ""),
         Fields |-> IF shapes[i].kind \in {"struct", "slice"} THEN nested ELSE <<>>]]

InitSchema ==
    /\ pc = "start"
    /\ \E k \in 0..MaxSchemaFields : \E sh \in [1..k -> SchemaShapes] :
          \E n \in 0..MaxSchemaNested : \E nsh \in [1..n -> SchemaNestedShapes] :
              \E d \in 0..MaxSchemaDeep : \E dsh \in [1..d -> SchemaDeepShapes] :
                  input = SchemaStructOf(sh, SchemaStructOf(nsh, SchemaStructOf(dsh, <<>>)))
    /\ opts \in SchemaOptions
    /\ root = NewVerticalLayout
    /\ built = <<>>
    /\ catInput = <<>>
    /\ catOrder = <<>>
    /\ catMap = <<>>
    /\ catNext = 0
    /\ catRuns = 0
    /\ groupRuns = 0
    /\ IdleExtra

\* the caller's GenerateJSONSchemaWithOptions(v, opts) on the same value and
\* options, before, between or after the steps of the UI Schema call
GenerateJSONSchema ==
    /\ Len(jschema) = 0
    /\ jschema' = <<GenerateJSONSchemaWithOptions(input, opts)>>
    /\ UNCHANGED <<input, opts, pc, root, built, catInput, catOrder, catMap, catNext,
                   catRuns, groupRuns, text, parsed, calls, shared>>

NextSchema ==
    \/ Next
    \/ GenerateJSONSchema

SpecSchema == InitSchema /\ [][NextSchema]_vars

\* the scope that follows the JSON names p from the root
RECURSIVE ScopeOf(_)
ScopeOf(p) ==
    IF p = <<>> THEN "#"
    ELSE ScopeOf(SubSeq(p, 1, Len(p) - 1)) \o "/properties/" \o p[Len(p)]

\* the schema s has the property named by the path p
RECURSIVE Resolves(_, _)
Resolves(s, p) ==
    \/ p = <<>>
    \/ /\ Head(p) \in DOMAIN s.Properties
       /\ Resolves(s.Properties[Head(p)], Tail(p))

\* the path p of JSON names leads through nested records of the struct type t
\* to a field that produces a node
RECURSIVE FollowsNames(_, _)
FollowsNames(t, p) ==
    \E i \in 1..Len(t) :
        /\ t[i].Exported /\ t[i].Name = Head(p) /\ ~isFieldHidden(t[i].Name, t[i].Form, opts)
        /\ \/ Len(p) = 1 /\ t[i].Kind # "struct"
           \/ Len(p) > 1 /\ t[i].Kind = "struct" /\ FollowsNames(t[i].Fields, Tail(p))

\* C19: every Control's scope is #/properties/<n1>/properties/<n2>/... along
\* the JSON names of the nested records that lead to its field, and that path
\* names a property of the JSON Schema generated from the same struct type
\* and options.
C19_ScopesNameSchemaProperties ==
    (pc = "done" /\ Len(jschema) = 1) =>
        \A c \in AllNodes(root) :
            c.Type = "Control" =>
                /\ c.Scope = ScopeOf(c.ptr)
                /\ FollowsNames(input, c.ptr)
                /\ Resolves(jschema[1], c.ptr)

\* the JSON names of the fields of every record of t are distinct
RECURSIVE DistinctNames(_)
DistinctNames(t) ==
    /\ \A i, j \in 1..Len(t) : (i # j /\ t[i].Exported /\ t[j].Exported) => t[i].Name # t[j].Name
    /\ \A i \in 1..Len(t) : DistinctNames(t[i].Fields)

\* scopes name schema properties when no record repeats a JSON name
ScopesResolveForDistinctNames ==
    (pc = "done" /\ Len(jschema) = 1 /\ DistinctNames(input)) =>
        \A c \in AllNodes(root) :
            c.Type = "Control" =>
                /\ c.Scope = ScopeOf(c.ptr)
                /\ FollowsNames(input, c.ptr)
                /\ Resolves(jschema[1], c.ptr)

DeepControlResolved ==
    /\ pc = "done" /\ Len(jschema) = 1 /\ DistinctNames(input)
    /\ \E c \in AllNodes(root) : c.Type = "Control" /\ Len(c.ptr) = 3

---------------------------------------------------------------------------
(* Concurrent calls of GenerateUISchemaWithOptions *)

MaxCalls == 2
MaxConcFields == 2

\* the tables the callers' Options values refer to: Options is passed by
\* value, its Translator and maps by reference
SharedTables ==
    [Translator |-> [nil |-> FALSE, t |-> ("uk" :> ("cat.key" :> "Rozdil"))],
     RolePermissions |-> ("viewer" :> ("f1" :> AccessHidden @@ "f2" :> AccessReadOnly)),
     Renderers |-> ("#/properties/f2" :> "custom")]

\* the role and locale of one call's Options
ConcOptions == {[Role |-> "", Locale |-> ""], [Role |-> "viewer", Locale |-> "uk"]}

\* the Options value a call works with
OptsOf(o, sh) ==
    [Translator |-> sh.Translator, Locale |-> o.Locale, Renderers |-> sh.Renderers,
     RolePermissions |-> sh.RolePermissions, Role |-> o.Role]

ConcShapes ==
    [kind : {"prim"}, cat : {"", "B"}, lay : {"g"},
     rule : {FALSE}, i18n : {FALSE}, ro : {FALSE}, hidden : {FALSE}, exported : {TRUE}]
    \cup
    [kind : {"prim"}, cat : {"A"}, lay : {"none"},
     rule : {FALSE}, i18n : {TRUE}, ro : {FALSE}, hidden : {FALSE}, exported : {TRUE}]

\* the locals of a call that has not started
NewCall(t, o) ==
    [pc |-> "start", input |-> t, opts |-> o, root |-> NewVerticalLayout,
     catOrder |-> <<>>, catMap |-> <<>>, catNext |-> 0]

\* one step of a call whose buckets live in a map all calls share
callStep_sharedBuckets(st, sh) ==
    LET o == OptsOf(st.opts, sh)
    IN  IF st.pc = "start" THEN
            [st |-> [st EXCEPT
                       !.root.Elements = buildUIElements(st.input, "#/properties", <<>>,
                                                         st.root.Elements, o),
                       !.pc = "built"],
             sh |-> sh]
        ELSE IF st.pc = "built" THEN
            [st |-> [st EXCEPT !.pc = IF hasCategorizedElements(st.root)
                                      THEN "bucket" ELSE "group"],
             sh |-> sh]
        ELSE IF st.pc = "bucket" THEN
            LET b == bucketElements(st.root.Elements, [order |-> <<>>, map |-> <<>>])
            IN  [st |-> [st EXCEPT !.catNext = 1, !.root = NewCategorization,
                                   !.pc = "finish"],
                 sh |-> ("buckets" :> b) @@ sh]
        ELSE IF st.pc = "finish" THEN
            LET b == sh.buckets
                last == st.catNext >= Len(b.order)
                name == b.order[IF st.catNext <= Len(b.order) THEN st.catNext ELSE 1]
                cat == finishCategory(b.map[name], o)
            IN  [st |-> [st EXCEPT !.root.Elements = Append(st.root.Elements, cat),
                                   !.catNext = st.catNext + 1,
                                   !.pc = IF last THEN "done" ELSE "finish"],
                 sh |-> sh]
        ELSE
            [st |-> [st EXCEPT
                       !.root.Elements = groupHorizontalElements(st.root.Elements),
                       !.pc = "done"],
             sh |-> sh]

\* one step of a call with the locals st, given the shared tables sh: the
\* call's locals and the shared tables after it (the steps are those of
\* BuildRoot, DecideCategorized, BucketRoot, FinishCategory and GroupRoot)
callStep(st, sh) ==
    LET o == OptsOf(st.opts, sh)
    IN  IF st.pc = "start" THEN
            [st |-> [st EXCEPT
                       !.root.Elements = buildUIElements(st.input, "#/properties", <<>>,
                                                         st.root.Elements, o),
                       !.pc = "built"],
             sh |-> sh]
        ELSE IF st.pc = "built" THEN
            [st |-> [st EXCEPT !.pc = IF hasCategorizedElements(st.root)
                                      THEN "bucket" ELSE "group"],
             sh |-> sh]
        ELSE IF st.pc = "bucket" THEN
            LET b == bucketElements(st.root.Elements, [order |-> <<>>, map |-> <<>>])
            IN  [st |-> [st EXCEPT !.catOrder = b.order, !.catMap = b.map,
                                   !.catNext = 1, !.root = NewCategorization,
                                   !.pc = "finish"],
                 sh |-> sh]
        ELSE IF st.pc = "finish" THEN
            LET name == st.catOrder[st.catNext]
                cat == finishCategory(st.catMap[name], o)
            IN  [st |-> [st EXCEPT !.catMap[name] = cat,
                                   !.root.Elements = Append(st.root.Elements, cat),
                                   !.catNext = st.catNext + 1,
                                   !.pc = IF st.catNext = Len(st.catOrder)
                                          THEN "done" ELSE "finish"],
                 sh |-> sh]
        ELSE
            [st |-> [st EXCEPT
                       !.root.Elements = groupHorizontalElements(st.root.Elements),
                       !.pc = "done"],
             sh |-> sh]

InitConc ==
    /\ pc = "calls"
    /\ IdleCall
    /\ text = <<>>
    /\ parsed = <<>>
    /\ jschema = <<>>
    /\ shared = SharedTables
    /\ \E ts \in [1..MaxCalls ->
                    UNION {{StructOf(FieldNames, sh, <<>>) : sh \in [1..k -> ConcShapes]} :
                           k \in 1..MaxConcFields}] :
          \E os \in [1..MaxCalls -> ConcOptions] :
              calls = [c \in 1..MaxCalls |-> NewCall(ts[c], os[c])]

\* the goroutine of call c takes its next step
CallStep(c) ==
    /\ calls[c].pc # "done"
    /\ LET r == callStep(calls[c], shared)
       IN  /\ calls' = [calls EXCEPT ![c] = r.st]
           /\ shared' = r.sh
    /\ UNCHANGED <<pc, input, opts, root, built, catInput, catOrder, catMap, catNext,
                   catRuns, groupRuns, text, parsed, jschema>>

NextConc == \E c \in 1..MaxCalls : CallStep(c)

SpecConc == InitConc /\ [][NextConc]_vars

\* C20: under every interleaving of the calls' steps, a call that has returned
\* has the tree the call gives when it runs alone, a call in its category loop
\* has the first categories of that tree, and the tables the calls share are as
\* they were given.
C20_ConcurrentCallsAgree ==
    /\ shared = SharedTables
    /\ \A c \in 1..MaxCalls :
          LET st == calls[c]
              alone == GenerateUISchemaWithOptions(st.input, OptsOf(st.opts, SharedTables))
          IN  /\ st.pc = "done" => st.root = alone
              /\ st.pc = "finish" =>
                    /\ alone.Type = "Categorization"
                    /\ st.catNext \in 1..Len(alone.Elements)
                    /\ st.root.Elements = SubSeq(alone.Elements, 1, st.catNext - 1)

\* one call, whose role hides f1 and whose locale translates the category
\* label, has returned while another call, on another type and with other
\* options, is between its two categories
C20_Witness ==
    /\ calls[1].pc = "done"
    /\ calls[1].root.Type = "Categorization"
    /\ Len(calls[1].input) = 2
    /\ Len(calls[1].root.Elements) = 1
    /\ calls[1].root.Elements[1].Label = "Rozdil"
    /\ calls[2].pc = "finish"
    /\ calls[2].catNext = 2
    /\ Len(calls[2].catOrder) = 2
    /\ calls[2].input # calls[1].input
    /\ calls[2].opts # calls[1].opts
    /\ calls[2].root.Elements[1].Label = "B"

---------------------------------------------------------------------------
(* Struct types that refer to struct types: the recursion of               *)
(* parseStructFields/typeToSchema and of buildUIElements on the goroutine  *)
(* stack                                                                   *)

MaxTypeFields == 1
MaxStack == 4

NilError == [nil |-> TRUE]

\* the named struct types of a program; T is the type of the value passed
TypeNames == <<"T", "U">>

\* the fields the i-th type may have: a plain field, well or badly tagged; a
\* field of a later struct type by value (Go rejects a type that contains
\* itself by value); a pointer to, slice of, array of pointers to or map to
\* any struct type
TypeFieldChoices(i) ==
    [Kind : {"prim"}, Elem : {""}, Rule : {"", "d"}]
    \cup
    [Kind : {"struct"}, Elem : {TypeNames[j] : j \in (i+1)..Len(TypeNames)}, Rule : {""}]
    \cup
    [Kind : {"ptr", "slice", "array", "map"}, Elem : Range(TypeNames), Rule : {""}]

\* the options of the calls: defaults, an unknown role, a translator without
\* the locale asked for
TypeOptions ==
    {[Draft |-> "draft-07"] @@ o :
        o \in {DefaultOptions,
               [DefaultOptions EXCEPT !.Role = "guest",
                    !.RolePermissions = ("viewer" :> ("f1" :> AccessHidden))],
               [DefaultOptions EXCEPT !.Locale = "de",
                    !.Translator = [nil |-> FALSE, t |-> ("uk" :> ("f1" :> "Pole"))]]}}

\* does the walk enter the struct type of the field: typeToSchema lines
\* 135-137, 162-190; buildUIElements lines 245-251
Recurses(fn, field) ==
    IF fn = "schema" THEN field.Kind \in {"struct", "ptr", "slice", "array", "map"}
    ELSE field.Kind \in {"struct", "ptr"}

\* one step of the goroutine: the loop over the fields of the top frame's
\* type enters the field's struct type, moves to the next field, or returns
walkStep(stack, tt, fn) ==
    LET top == stack[Len(stack)]
        fields == tt[top.type]
    IN  IF top.idx > Len(fields) THEN SubSeq(stack, 1, Len(stack) - 1)
        ELSE
            LET adv == [stack EXCEPT ![Len(stack)].idx = top.idx + 1]
            IN  IF Recurses(fn, fields[top.idx])
                THEN Append(adv, [type |-> fields[top.idx].Elem, idx |-> 1])
                ELSE adv

\* the struct type `name` as the sequence of field descriptors the walk fn of
\* a finished call has gone through
RECURSIVE Unfold(_, _, _)
Unfold(tt, name, fn) ==
    [i \in 1..Len(tt[name]) |->
        LET f == tt[name][i]
        IN  [Name |-> FieldNames[i], GoName |-> FieldNames[i], Exported |-> TRUE,
             Kind |-> IF f.Kind = "prim" THEN "string"
                      ELSE IF f.Kind = "ptr" THEN "struct"
                      ELSE IF f.Kind = "array" THEN "slice" ELSE f.Kind,
             Form |-> DefaultForm,
             Tags |-> [SchemaTags(FALSE, "") EXCEPT !.VisibleIf = f.Rule],
             Fields |-> IF Recurses(fn, f) THEN Unfold(tt, f.Elem, fn) ELSE <<>>]]

InitTypes ==
    /\ pc \in {"schema", "ui"}
    /\ \E k1, k2 \in 0..MaxTypeFields :
          \E f1 \in [1..k1 -> TypeFieldChoices(1)] :
              \E f2 \in [1..k2 -> TypeFieldChoices(2)] :
                  input = (TypeNames[1] :> f1) @@ (TypeNames[2] :> f2)
    /\ opts \in TypeOptions
    /\ calls = <<[type |-> TypeNames[1], idx |-> 1]>>
    /\ root = NewVerticalLayout
    /\ built = <<>>
    /\ catInput = <<>>
    /\ catOrder = <<>>
    /\ catMap = <<>>
    /\ catNext = 0
    /\ catRuns = 0
    /\ groupRuns = 0
    /\ text = <<>>
    /\ parsed = <<>>
    /\ jschema = <<>>
    /\ shared = <<>>

\* GenerateJSONSchemaWithOptions(v, opts): a step of the walk; `return root,
\* nil` when the last frame returns; the runtime ends the program when the
\* stack passes its limit
WalkSchema ==
    /\ pc = "schema"
    /\ calls' = walkStep(calls, input, "schema")
    /\ IF Len(calls') > MaxStack THEN
           /\ pc' = "overflow"
           /\ UNCHANGED <<jschema, parsed>>
       ELSE IF calls' = <<>> THEN
           /\ pc' = "returned"
           /\ jschema' = <<GenerateJSONSchemaWithOptions(Unfold(input, TypeNames[1], "schema"), opts)>>
           /\ parsed' = [root |-> jschema', err |-> NilError]
       ELSE
           /\ pc' = "schema"
           /\ UNCHANGED <<jschema, parsed>>
    /\ UNCHANGED <<input, opts, root, built, catInput, catOrder, catMap, catNext,
                   catRuns, groupRuns, text, shared>>

\* GenerateUISchemaWithOptions(v, opts), likewise
WalkUI ==
    /\ pc = "ui"
    /\ calls' = walkStep(calls, input, "ui")
    /\ IF Len(calls') > MaxStack THEN
           /\ pc' = "overflow"
           /\ UNCHANGED <<root, parsed>>
       ELSE IF calls' = <<>> THEN
           /\ pc' = "returned"
           /\ root' = GenerateUISchemaWithOptions(Unfold(input, TypeNames[1], "ui"), opts)
           /\ parsed' = [root |-> <<root'>>, err |-> NilError]
       ELSE
           /\ pc' = "ui"
           /\ UNCHANGED <<root, parsed>>
    /\ UNCHANGED <<input, opts, jschema, built, catInput, catOrder, catMap, catNext,
                   catRuns, groupRuns, text, shared>>

NextTypes ==
    \/ WalkSchema
    \/ WalkUI

\* the goroutine of the call keeps running
SpecTypes == InitTypes /\ [][NextTypes]_vars /\ WF_vars(NextTypes)

\* a type the walk fn reaches from T has a field that leads back to it
SelfContaining(tt, fn) ==
    \E n \in Range(TypeNames) :
        LET next(S) == UNION {{tt[m][i].Elem :
                                  i \in {j \in 1..Len(tt[m]) : Recurses(fn, tt[m][j])}} :
                              m \in S}
            from(S) == S \cup next(S) \cup next(next(S))
        IN  /\ n \in from({TypeNames[1]})
            /\ n \in next(from({n}))

\* C28: both walks return for every struct type, self-containing types
\* included.
C28_WalksTerminate == <>(pc = "returned")

\* a walk returns when no type that it reaches contains itself
ReturnsUnlessSelfContaining ==
    (~SelfContaining(input, "schema")) ~> (pc = "returned")

\* a walk of a self-containing type ends on the stack limit
OverflowsWhenSelfContaining ==
    (SelfContaining(input, "ui") /\ pc = "ui") ~> (pc = "overflow")

\* C21: every call returns, and returns a root and the nil error.
C21_ReturnsRootAndNoError ==
    <>[](pc = "returned" /\ Len(parsed.root) = 1 /\ parsed.err.nil)

\* a call that returns gives a root and the nil error
ReturnedRootAndNoError ==
    pc = "returned" => (Len(parsed.root) = 1 /\ parsed.err.nil)

ReturnedWithBadTags ==
    /\ pc = "returned"
    /\ Len(input["T"]) = 1 /\ input["T"][1].Kind = "ptr"
    /\ Len(input["U"]) = 1 /\ input["U"][1].Rule = "d"
    /\ opts.Role = "guest"

---------------------------------------------------------------------------
(* Labels under a translator *)

MaxLabelFields == 2

\* no translator; a translator with the key in the locale; the locale missing
\* from the translator; the key missing from the locale
LabelOptions ==
    LET tr == [nil |-> FALSE,
               t |-> ("uk" :> ("user.name" :> "Imya") @@ "en" :> ("other" :> "Other"))]
    IN  {DefaultOptions} \cup
        {[DefaultOptions EXCEPT !.Translator = tr, !.Locale = l] : l \in {"uk", "de", "en", ""}}

InitLabels ==
    /\ pc = "start"
    /\ \E k \in 1..MaxLabelFields :
          \E sh \in [1..k -> [kind : {"prim"},
                              form : {[DefaultForm EXCEPT !.Label = l, !.Category = c] :
                                         l \in {"", "Name"}, c \in {"", "A"}},
                              tags : {[DefaultTags EXCEPT !.I18nKey = key] :
                                         key \in {"", "user.name"}}]] :
              input = RuleStructOf(FieldNames, sh, <<>>)
    /\ opts \in LabelOptions
    /\ root = NewVerticalLayout
    /\ built = <<>>
    /\ catInput = <<>>
    /\ catOrder = <<>>
    /\ catMap = <<>>
    /\ catNext = 0
    /\ catRuns = 0
    /\ groupRuns = 0
    /\ IdleExtra

SpecLabels == InitLabels /\ [][Next]_vars

\* a translator and a locale are configured and the translator has nothing
\* for the key in that locale
NoTranslation(key, o) ==
    /\ ~o.Translator.nil
    /\ o.Locale # ""
    /\ ~(o.Locale \in DOMAIN o.Translator.t /\ key \in DOMAIN o.Translator.t[o.Locale])

\* C22: with a translator and a locale configured and no translation for the
\* field's i18n key, the label of the field's Control is the form label of the
\* field when it has one.
C22_MissingTranslationGivesFormLabel ==
    pc = "done" =>
        \A c \in AllNodes(root) :
            (c.Type = "Control"
                /\ FieldAt(c.ptr).Tags.I18nKey # ""
                /\ FieldAt(c.ptr).Form.Label # ""
                /\ NoTranslation(FieldAt(c.ptr).Tags.I18nKey, opts))
            => c.Label = FieldAt(c.ptr).Form.Label

\* what the code does: the label is the i18n key
MissingTranslationGivesKey ==
    pc = "done" =>
        \A c \in AllNodes(root) :
            (c.Type = "Control"
                /\ FieldAt(c.ptr).Tags.I18nKey # ""
                /\ NoTranslation(FieldAt(c.ptr).Tags.I18nKey, opts))
            => c.Label = FieldAt(c.ptr).Tags.I18nKey

---------------------------------------------------------------------------
(* api package: the type registry (registry.go)                            *)
(*                                                                         *)
(* shared is the Registry: types (the map), w (the goroutine holding mu    *)
(* for writing, 0 when none), r (the goroutines holding mu for reading)    *)
(* and log (history: the stores in the order they happened).  calls gives  *)
(* each goroutine's one call: op, name, v, pc, ret, and the history fields *)
(* before (names whose Register had returned when the call began), during  *)
(* (what types[name] has been since the call began) and at (the number of  *)
(* stores that had happened when the call read the map).                   *)

MaxGoroutines == 3

\* type names, in sorted order
RegNames == <<"Alpha", "Beta">>

NewRegistry == [types |-> <<>>, w |-> 0, r |-> {}, log |-> <<>>]

\* v, ok := r.types[name]
mapGet(types, name) ==
    IF name \in DOMAIN types THEN [ok |-> TRUE, v |-> types[name]]
    ELSE [ok |-> FALSE, v |-> 0]

\* mu.Lock() returns: no goroutine holds mu
canLock(reg) == reg.w = 0 /\ reg.r = {}

\* canRLock that does not wait for the writer
canRLock_noWait(reg) == TRUE

\* mu.RLock() returns: no goroutine holds mu for writing
canRLock(reg) == reg.w = 0

\* the orders in which `for name := range r.types` may visit the keys
RangeOrders(types) ==
    {s \in [1..Cardinality(DOMAIN types) -> DOMAIN types] :
        \A i, j \in DOMAIN s : i # j => s[i] # s[j]}

InitRegistry ==
    /\ pc = "registry"
    /\ IdleCall
    /\ text = <<>>
    /\ parsed = <<>>
    /\ jschema = <<>>
    /\ shared = NewRegistry
    /\ \E ops \in [1..MaxGoroutines ->
                     [op : {"Register", "Lookup"}, name : Range(RegNames)]
                     \cup [op : {"Names"}, name : {""}]] :
          calls = [g \in 1..MaxGoroutines |->
                      [op |-> ops[g].op, name |-> ops[g].name, v |-> g, pc |-> "idle",
                       ret |-> <<>>, before |-> {}, during |-> {}, at |-> 0]]

\* goroutine g makes its call
Invoke(g) ==
    /\ calls[g].pc = "idle"
    /\ calls' = [calls EXCEPT
           ![g].pc = "call",
           ![g].before = {calls[h].name : h \in {k \in DOMAIN calls :
                             calls[k].op = "Register" /\ calls[k].pc = "done"}},
           ![g].during = {mapGet(shared.types, calls[g].name)}]
    /\ UNCHANGED shared

\* Register line 24: r.mu.Lock()
Lock(g) ==
    /\ calls[g].op = "Register" /\ calls[g].pc = "call"
    /\ canLock(shared)
    /\ shared' = [shared EXCEPT !.w = g]
    /\ calls' = [calls EXCEPT ![g].pc = "locked"]

\* Store that leaves a name that is already registered as it is
Store_keepFirst(g) ==
    /\ calls[g].pc = "locked"
    /\ shared' = [shared EXCEPT
           !.types = shared.types @@ (calls[g].name :> calls[g].v),
           !.log = Append(shared.log, [name |-> calls[g].name, v |-> calls[g].v])]
    /\ calls' = [h \in DOMAIN calls |->
           IF h = g THEN [calls[h] EXCEPT !.pc = "stored"]
           ELSE IF calls[h].pc \in {"call", "rlocked"}
           THEN [calls[h] EXCEPT
                   !.during = @ \cup {mapGet(shared'.types, calls[h].name)}]
           ELSE calls[h]]

\* Register line 27: r.types[name] = v
Store(g) ==
    /\ calls[g].pc = "locked"
    /\ shared' = [shared EXCEPT
           !.types = (calls[g].name :> calls[g].v) @@ shared.types,
           !.log = Append(shared.log, [name |-> calls[g].name, v |-> calls[g].v])]
    /\ calls' = [h \in DOMAIN calls |->
           IF h = g THEN [calls[h] EXCEPT !.pc = "stored"]
           ELSE IF calls[h].pc \in {"call", "rlocked"}
           THEN [calls[h] EXCEPT
                   !.during = @ \cup {mapGet(shared'.types, calls[h].name)}]
           ELSE calls[h]]

\* Register line 25: the deferred r.mu.Unlock(), and return
Unlock(g) ==
    /\ calls[g].pc = "stored"
    /\ shared' = [shared EXCEPT !.w = 0]
    /\ calls' = [calls EXCEPT ![g].pc = "done"]

\* Lookup line 35, Names line 48: r.mu.RLock()
RLock(g) ==
    /\ calls[g].op \in {"Lookup", "Names"} /\ calls[g].pc = "call"
    /\ canRLock(shared)
    /\ shared' = [shared EXCEPT !.r = @ \cup {g}]
    /\ calls' = [calls EXCEPT ![g].pc = "rlocked"]

\* Lookup lines 38-43: the map read and the result; a read while a writer is
\* inside Register is a data race on the map, which may give the value or a
\* value that nobody stored
Read(g) ==
    /\ calls[g].op = "Lookup" /\ calls[g].pc = "rlocked"
    /\ \E res \in {mapGet(shared.types, calls[g].name)} \cup
                  (IF shared.w # 0 THEN {[ok |-> TRUE, v |-> 0]} ELSE {}) :
          calls' = [calls EXCEPT ![g].pc = "read",
                                 ![g].ret = [v |-> res.v, err |-> [nil |-> res.ok]],
                                 ![g].at = Len(shared.log)]
    /\ UNCHANGED shared

\* Names lines 51-56: the names in the order the range over the map gives
Collect(g) ==
    /\ calls[g].op = "Names" /\ calls[g].pc = "rlocked"
    /\ \E names \in RangeOrders(shared.types) :
          calls' = [calls EXCEPT ![g].pc = "read", ![g].ret = names,
                                 ![g].at = Len(shared.log)]
    /\ UNCHANGED shared

\* Lookup line 36, Names line 49: the deferred r.mu.RUnlock(), and return
RUnlock(g) ==
    /\ calls[g].pc = "read"
    /\ shared' = [shared EXCEPT !.r = @ \ {g}]
    /\ calls' = [calls EXCEPT ![g].pc = "done"]

NextRegistry ==
    /\ \E g \in DOMAIN calls :
          \/ Invoke(g)
          \/ Lock(g)
          \/ Store(g)
          \/ Unlock(g)
          \/ RLock(g)
          \/ Read(g)
          \/ Collect(g)
          \/ RUnlock(g)
    /\ UNCHANGED <<pc, input, opts, root, built, catInput, catOrder, catMap, catNext,
                   catRuns, groupRuns, text, parsed, jschema>>

SpecRegistry == InitRegistry /\ [][NextRegistry]_vars

\* C23: no goroutine is inside the registry with a writer; a Lookup that has
\* returned gives what the map held for its name at some moment of the call
\* (not found, or the value some Register stored under that name); and it
\* finds the name when a Register of the name had returned before it began.
C23_RegistryLinearizable ==
    /\ shared.w # 0 => shared.r = {}
    /\ \A g \in DOMAIN calls :
          (calls[g].op = "Lookup" /\ calls[g].pc \in {"read", "done"}) =>
              LET res == [ok |-> calls[g].ret.err.nil, v |-> calls[g].ret.v]
              IN  /\ res \in calls[g].during
                  /\ res.ok => \E h \in DOMAIN calls :
                                  /\ calls[h].op = "Register"
                                  /\ calls[h].name = calls[g].name
                                  /\ calls[h].v = res.v
                  /\ calls[g].name \in calls[g].before => res.ok

\* a Lookup began after one Register of its name had returned, overlapped
\* another Register of the name, and returned the later value
C23_Witness ==
    /\ calls[1].op = "Register" /\ calls[1].name = "Alpha" /\ calls[1].pc = "done"
    /\ calls[2].op = "Register" /\ calls[2].name = "Alpha" /\ calls[2].pc = "done"
    /\ calls[3].op = "Lookup" /\ calls[3].name = "Alpha" /\ calls[3].pc = "done"
    /\ calls[3].before = {"Alpha"}
    /\ Cardinality(calls[3].during) = 2
    /\ calls[3].ret.v = 2
    /\ shared.log = <<[name |-> "Alpha", v |-> 1], [name |-> "Alpha", v |-> 2]>>

\* the stores of the name among the first k stores
StoresOf(name, k) == {i \in 1..k : shared.log[i].name = name}

\* the position of a name in the sorted order
Rank(name) == CHOOSE i \in DOMAIN RegNames : RegNames[i] = name

\* C24: a Lookup returns the value of the latest store of its name and an
\* error exactly when the name has not been stored; Names holds every stored
\* name exactly once; the map holds exactly the names ever stored.
C24_LookupLatestNamesOnce ==
    /\ DOMAIN shared.types = {shared.log[i].name : i \in DOMAIN shared.log}
    /\ \A g \in DOMAIN calls :
          calls[g].pc \in {"read", "done"} =>
              /\ calls[g].op = "Lookup" =>
                    LET st == StoresOf(calls[g].name, calls[g].at)
                    IN  /\ calls[g].ret.err.nil <=> st # {}
                        /\ st # {} =>
                              calls[g].ret.v =
                                  shared.log[CHOOSE i \in st : \A j \in st : j <= i].v
              /\ calls[g].op = "Names" =>
                    \A n \in Range(RegNames) :
                        Cardinality({i \in DOMAIN calls[g].ret : calls[g].ret[i] = n})
                            = IF StoresOf(n, calls[g].at) # {} THEN 1 ELSE 0

\* a name is registered twice and then looked up
C24_Witness ==
    /\ shared.log = <<[name |-> "Beta", v |-> 2], [name |-> "Beta", v |-> 1]>>
    /\ calls[3].op = "Lookup" /\ calls[3].name = "Beta" /\ calls[3].pc = "done"
    /\ calls[3].at = 2
    /\ calls[3].ret.v = 1

\* Names has returned two names
C24_WitnessNames ==
    /\ \E g \in DOMAIN calls :
          calls[g].op = "Names" /\ calls[g].pc = "done" /\ Len(calls[g].ret) = 2

\* C25: Names returns the names in sorted order.
C25_NamesSorted ==
    \A g \in DOMAIN calls :
        (calls[g].op = "Names" /\ calls[g].pc \in {"read", "done"}) =>
            \A i, j \in DOMAIN calls[g].ret :
                i < j => Rank(calls[g].ret[i]) < Rank(calls[g].ret[j])

---------------------------------------------------------------------------
(* Categorization keeps every node *)

\* the number of places of the Category cat, directly in it or in one of its
\* HorizontalLayouts, that hold the node of the top-level field named name
PlacesIn(cat, name) ==
    LET flat == Flatten(cat.Elements)
    IN  Cardinality({i \in 1..Len(flat) : flat[i].ptr = <<name>>})

\* C27: in a returned Categorization the node of every top-level field that is
\* not hidden occurs exactly once, in the Category named by the field's
\* category ("Other" when it has none), directly or inside one
\* HorizontalLayout of that Category, and in no other Category.
C27_CategorizationKeepsNodes ==
    (pc = "done" /\ root.Type = "Categorization") =>
        \A i \in 1..Len(input) :
            (input[i].Exported /\ input[i].Name # "-" /\ ~HiddenField(input[i])) =>
                LET own == IF input[i].Form.Category = "" THEN "Other"
                           ELSE input[i].Form.Category
                IN  /\ \E k \in 1..Len(root.Elements) : root.Elements[k].Label = own
                    /\ \A k \in 1..Len(root.Elements) :
                          /\ root.Elements[k].Type = "Category"
                          /\ PlacesIn(root.Elements[k], input[i].Name)
                                = IF root.Elements[k].ptr[2] = own THEN 1 ELSE 0
                          /\ \A m \in 1..Len(root.Elements[k].Elements) :
                                root.Elements[k].Elements[m].Type = "HorizontalLayout" =>
                                    \A n \in 1..Len(root.Elements[k].Elements[m].Elements) :
                                        root.Elements[k].Elements[m].Elements[n].Type
                                            # "HorizontalLayout"

\* two fields of category A in one HorizontalLayout, and a field without a
\* category in Other
C27_Witness ==
    /\ pc = "done"
    /\ root.Type = "Categorization"
    /\ Len(input) = 3
    /\ \E k \in 1..Len(root.Elements) :
          /\ root.Elements[k].ptr[2] = "A"
          /\ \E m \in 1..Len(root.Elements[k].Elements) :
                /\ root.Elements[k].Elements[m].Type = "HorizontalLayout"
                /\ Len(root.Elements[k].Elements[m].Elements) = 2
    /\ \E k \in 1..Len(root.Elements) :
          /\ root.Elements[k].ptr[2] = "Other"
          /\ Len(root.Elements[k].Elements) = 1

---------------------------------------------------------------------------
(* parser package: GenerateFromJSON (json_parser.go)                       *)
(*                                                                         *)
(* A JSON text is the tree of its values: kind, members (the key/value     *)
(* pairs of an object in the order of the text) and items; kind "garbage"  *)
(* is a text that is not JSON.                                             *)

MaxJSONKeys == 2
MaxJSONCalls == 2

JSONValue(kind, members, items) == [kind |-> kind, members |-> members, items |-> items]

\* the scalar values, the arrays of them and the objects of scalars
JSONLeaves ==
    {JSONValue(k, <<>>, <<>>) : k \in {"string", "integer", "float", "null"}}
    \cup {JSONValue("array", <<>>, it) : it \in {<<>>, <<JSONValue("integer", <<>>, <<>>)>>}}

JSONObjects(keys, values) ==
    {JSONValue("object", m, <<>>) :
        m \in UNION {[1..n -> [key : keys, val : values]] : n \in 0..MaxJSONKeys}}

\* the map[string]any json.Unmarshal makes of an object: a later member of the
\* same key replaces an earlier one
ObjMap(members) ==
    [k \in {members[i].key : i \in DOMAIN members} |->
        members[CHOOSE i \in DOMAIN members :
                    /\ members[i].key = k
                    /\ \A j \in DOMAIN members : members[j].key = k => j <= i].val]

\* json_parser.go lines 74-103, and 116-135 for an array: the item schema is
\* the schema of the first item, which in the arrays drawn here is a scalar
inferSchema(val) ==
    IF val.kind = "null" THEN NewSchema("null")
    ELSE IF val.kind = "bool" THEN NewSchema("boolean")
    ELSE IF val.kind = "integer" THEN NewSchema("integer")
    ELSE IF val.kind = "float" THEN NewSchema("number")
    ELSE IF val.kind = "string" THEN NewSchema("string")
    ELSE IF val.kind = "array" THEN
        [NewSchema("array") EXCEPT
            !.Items = <<IF val.items = <<>> THEN NewSchema("")
                        ELSE NewSchema(IF val.items[1].kind = "float" THEN "number"
                                       ELSE val.items[1].kind)>>]
    ELSE NewSchema("object")

RECURSIVE buildFromObject(_, _, _, _, _, _)
\* lines 53-71: the loop over the map obj in the order `keys` of its keys; ord
\* gives the order in which the range over each nested object visits its keys;
\* the result is the schema s and the list els with what the loop added
buildFromObject(obj, keys, s, basePath, path, acc) ==
    IF keys = <<>> THEN acc
    ELSE
        LET key == Head(keys)
            val == obj[key]
            scope == basePath \o "/" \o key
            ptr == Append(path, key)
            nested == ObjMap(val.members)
            sub == buildFromObject(nested, acc.ord[key], NewSchema("object"),
                                   scope \o "/properties", ptr,
                                   [s |-> NewSchema("object"), els |-> <<>>, ord |-> <<>>])
            prop == IF val.kind = "object" THEN sub.s ELSE inferSchema(val)
            el == IF val.kind = "object"
                  THEN [NewGroup(key, ptr) EXCEPT !.Elements = sub.els]
                  ELSE NewControl(scope, ptr)
        IN  buildFromObject(obj, Tail(keys), s, basePath, path,
                [acc EXCEPT !.s.Properties = (key :> prop) @@ acc.s.Properties,
                            !.els = Append(acc.els, el)])

ErrInvalidJSON == [nil |-> FALSE, is |-> "ErrInvalidJSON"]
ErrNotJSONObject == [nil |-> FALSE, is |-> "ErrNotJSONObject"]

\* the orders in which the ranges over the object and over its nested objects
\* may visit their keys
KeyOrders(obj) ==
    LET objKeys == {k \in DOMAIN obj : obj[k].kind = "object"}
    IN  {[top |-> t, nest |-> n] :
            t \in RangeOrders(obj),
            n \in {f \in [objKeys -> UNION ({{<<>>}} \cup
                                      {RangeOrders(ObjMap(obj[k].members)) : k \in objKeys})] :
                      \A k \in objKeys : f[k] \in RangeOrders(ObjMap(obj[k].members))}}

\* lines 26-48 with the ranges over the maps in the orders ord: the values
\* returned
generateFromJSON(data, o, ord) ==
    IF data.kind = "garbage" THEN [schema |-> <<>>, ui |-> <<>>, err |-> ErrInvalidJSON]
    ELSE IF data.kind # "object" THEN [schema |-> <<>>, ui |-> <<>>, err |-> ErrNotJSONObject]
    ELSE
        LET r == buildFromObject(ObjMap(data.members), ord.top, <<>>, "#/properties", <<>>,
                     [s |-> [NewSchema("object") EXCEPT !.Schema = DraftURL(o)],
                      els |-> <<>>, ord |-> ord.nest])
        IN  [schema |-> <<r.s>>,
             ui |-> <<[NewVerticalLayout EXCEPT !.Elements = r.els]>>,
             err |-> NilError]

InitJSON ==
    /\ pc = "json"
    /\ text \in {JSONValue("garbage", <<>>, <<>>)} \cup JSONLeaves
                \cup JSONObjects({"b", "a"}, JSONLeaves \cup JSONObjects({"y", "x"},
                                     {JSONValue("string", <<>>, <<>>)}))
    /\ opts \in SchemaOptions
    /\ parsed = <<>>
    /\ input = <<>>
    /\ root = NewVerticalLayout
    /\ built = <<>>
    /\ catInput = <<>>
    /\ catOrder = <<>>
    /\ catMap = <<>>
    /\ catNext = 0
    /\ catRuns = 0
    /\ groupRuns = 0
    /\ jschema = <<>>
    /\ calls = <<>>
    /\ shared = <<>>

\* one call GenerateFromJSONWithOptions(data, opts) on the same bytes
CallGenerateFromJSON ==
    /\ pc = "json"
    /\ \E ord \in IF text.kind = "object" THEN KeyOrders(ObjMap(text.members))
                  ELSE {[top |-> <<>>, nest |-> <<>>]} :
          parsed' = Append(parsed, generateFromJSON(text, opts, ord))
    /\ pc' = IF Len(parsed') < MaxJSONCalls THEN "json" ELSE "done"
    /\ UNCHANGED <<input, opts, root, built, catInput, catOrder, catMap, catNext,
                   catRuns, groupRuns, text, jschema, calls, shared>>

NextJSON == CallGenerateFromJSON

SpecJSON == InitJSON /\ [][NextJSON]_vars

\* the keys of the members in the order of the text, each at its first place
RECURSIVE KeysInTextOrder(_, _)
KeysInTextOrder(members, seen) ==
    IF members = <<>> THEN <<>>
    ELSE IF Head(members).key \in seen THEN KeysInTextOrder(Tail(members), seen)
    ELSE <<Head(members).key>> \o KeysInTextOrder(Tail(members), seen \cup {Head(members).key})

\* C30: the calls on the same bytes return the same UI Schema, and the
\* elements of the root layout and of each Group stand in the order of the
\* keys of their object in the text.
C30_GenerateFromJSONDeterministic ==
    \A c \in DOMAIN parsed :
        /\ parsed[c].ui = parsed[1].ui
        /\ parsed[c].err.nil =>
              /\ [i \in DOMAIN parsed[c].ui[1].Elements |-> parsed[c].ui[1].Elements[i].ptr[1]]
                    = KeysInTextOrder(text.members, {})
              /\ \A i \in DOMAIN parsed[c].ui[1].Elements :
                    LET g == parsed[c].ui[1].Elements[i]
                    IN  g.Type = "Group" =>
                            [j \in DOMAIN g.Elements |-> g.Elements[j].ptr[2]]
                                = KeysInTextOrder(ObjMap(text.members)[g.Label].members, {})

\* the calls return the same JSON Schema and the same error
SameSchemaAndError ==
    \A c \in DOMAIN parsed :
        parsed[c].schema = parsed[1].schema /\ parsed[c].err = parsed[1].err

---------------------------------------------------------------------------
(* parser package: GenerateFromOpenAPI (openapi_parser.go)                 *)
(*                                                                         *)
(* A document is valid JSON or not and holds the raw component schemas by  *)
(* name; a raw schema unmarshals into an openAPISchema or does not.  A     *)
(* $ref is written as the name that follows "#/components/schemas/".  The  *)
(* goroutine's stack holds one frame per call of the walk in progress.     *)

\* openAPISchema (lines 26-39): Items and AdditionalProperties are <<>> (nil)
\* or hold the one schema; an object has at most the property p
NewOASchema(type, ref) ==
    [Type |-> type, Ref |-> ref, Properties |-> <<>>, Items |-> <<>>,
     AdditionalProperties |-> <<>>]

OANames == <<"A", "B">>

\* the schemas below a component: a string, and references to the
\* components and to a name the document does not have
OALeaves ==
    {NewOASchema("string", "")} \cup {NewOASchema("", r) : r \in Range(OANames) \cup {"Nope"}}

\* the component schemas: a reference, a string, an object with or without
\* the property p and additionalProperties, an array of items
OAComponents ==
    {l \in OALeaves : TRUE}
    \cup {[NewOASchema("object", "") EXCEPT !.Properties = p, !.AdditionalProperties = a] :
            p \in {<<>>} \cup {("p" :> l) : l \in OALeaves},
            a \in {<<>>} \cup {<<NewOASchema("", r)>> : r \in Range(OANames)}}
    \cup {[NewOASchema("array", "") EXCEPT !.Items = <<l>>] : l \in OALeaves}

ErrInvalidOpenAPI == [nil |-> FALSE, is |-> "ErrInvalidOpenAPI"]
ErrSchemaNotFound == [nil |-> FALSE, is |-> "ErrSchemaNotFound"]

\* lines 58-67: the schemas that unmarshal, by name
allSchemasOf(doc) ==
    [n \in {m \in DOMAIN doc.schemas : doc.schemas[m].ok} |-> doc.schemas[n].s]

\* lines 172-181: <<>> is nil
resolveRef(ref, allSchemas) ==
    IF ref \in DOMAIN allSchemas THEN <<allSchemas[ref]>> ELSE <<>>

\* the property values of oa in the order of the range over oa.Properties
oaProperties(oa) ==
    IF "p" \in DOMAIN oa.Properties THEN <<oa.Properties["p"]>> ELSE <<>>

\* lines 146-152
oaActual(prop, allSchemas) ==
    IF prop.Ref # "" /\ resolveRef(prop.Ref, allSchemas) # <<>>
    THEN resolveRef(prop.Ref, allSchemas)[1] ELSE prop

\* the schemas on which a call of the walk fn on oa calls the walk again, in
\* the order of the calls: convertOpenAPIToJSONSchema lines 88-95, 112-126;
\* buildOpenAPIUISchema lines 134-139, 143-158
oaCalls(fn, oa, allSchemas) ==
    IF oa.Ref # "" /\ resolveRef(oa.Ref, allSchemas) # <<>> THEN resolveRef(oa.Ref, allSchemas)
    ELSE IF fn = "convert" THEN
        IF oa.Ref # "" THEN <<>>
        ELSE oaProperties(oa) \o oa.Items \o oa.AdditionalProperties
    ELSE
        SelectSeq([i \in DOMAIN oaProperties(oa) |-> oaActual(oaProperties(oa)[i], allSchemas)],
                  LAMBDA a : a.Type = "object" /\ DOMAIN a.Properties # {})

\* one step of the goroutine: the top frame makes its next call or returns
oaStep(stack, allSchemas, fn) ==
    LET top == stack[Len(stack)]
        cs == oaCalls(fn, top.oa, allSchemas)
    IN  IF top.idx > Len(cs) THEN SubSeq(stack, 1, Len(stack) - 1)
        ELSE Append([stack EXCEPT ![Len(stack)].idx = top.idx + 1],
                    [oa |-> cs[top.idx], idx |-> 1])

RECURSIVE convertOpenAPIToJSONSchema(_, _)
\* lines 86-129: the value a call that returns gives
convertOpenAPIToJSONSchema(oa, allSchemas) ==
    IF oa.Ref # "" THEN
        IF resolveRef(oa.Ref, allSchemas) # <<>>
        THEN convertOpenAPIToJSONSchema(resolveRef(oa.Ref, allSchemas)[1], allSchemas)
        ELSE NewSchema("object")
    ELSE
        [NewSchema(oa.Type) EXCEPT
            !.Properties = [n \in DOMAIN oa.Properties |->
                               convertOpenAPIToJSONSchema(oa.Properties[n], allSchemas)],
            !.Items = IF oa.Items = <<>> THEN <<>>
                      ELSE <<convertOpenAPIToJSONSchema(oa.Items[1], allSchemas)>>,
            !.AdditionalProperties =
                      IF oa.AdditionalProperties = <<>> THEN <<>>
                      ELSE <<convertOpenAPIToJSONSchema(oa.AdditionalProperties[1], allSchemas)>>]

RECURSIVE buildOpenAPIUISchema(_, _, _, _)
\* lines 132-169: the value a call that returns gives
buildOpenAPIUISchema(oa, basePath, path, allSchemas) ==
    IF oa.Ref # "" /\ resolveRef(oa.Ref, allSchemas) # <<>>
    THEN buildOpenAPIUISchema(resolveRef(oa.Ref, allSchemas)[1], basePath, path, allSchemas)
    ELSE
        [NewVerticalLayout EXCEPT !.Elements =
            IF "p" \notin DOMAIN oa.Properties THEN <<>>
            ELSE
                LET scope == basePath \o "/p"
                    actual == oaActual(oa.Properties["p"], allSchemas)
                IN  IF actual.Type = "object" /\ DOMAIN actual.Properties # {}
                    THEN <<[NewGroup("p", Append(path, "p")) EXCEPT !.Elements =
                               buildOpenAPIUISchema(actual, scope \o "/properties",
                                                    Append(path, "p"), allSchemas).Elements]>>
                    ELSE <<NewControl(scope, Append(path, "p"))>>]

\* the documents: not JSON, without component schemas, and with the
\* components A and B
OADocs ==
    {[valid |-> FALSE, schemas |-> <<>>], [valid |-> TRUE, schemas |-> <<>>]}
    \cup {[valid |-> TRUE,
           schemas |-> (OANames[1] :> [ok |-> TRUE, s |-> a]) @@ (OANames[2] :> b)] :
             a \in OAComponents,
             b \in {[ok |-> FALSE, s |-> NewOASchema("", "")]}
                   \cup {[ok |-> TRUE, s |-> c] : c \in OAComponents}}

InitOpenAPI ==
    /\ pc = "openapi"
    /\ text \in OADocs
    /\ input \in {OANames[1], OANames[2], "Nope"}
    /\ opts = [Draft |-> "draft-07"] @@ DefaultOptions
    /\ parsed = <<>>
    /\ root = NewVerticalLayout
    /\ built = <<>>
    /\ catInput = <<>>
    /\ catOrder = <<>>
    /\ catMap = <<>>
    /\ catNext = 0
    /\ catRuns = 0
    /\ groupRuns = 0
    /\ jschema = <<>>
    /\ calls = <<>>
    /\ shared = <<>>

\* GenerateFromOpenAPI(data, schemaName), lines 44-76: the error returns, or
\* the call of convertOpenAPIToJSONSchema on the named schema
EnterOpenAPI ==
    /\ pc = "openapi"
    /\ IF ~text.valid \/ DOMAIN text.schemas = {} THEN
           /\ parsed' = <<[schema |-> <<>>, ui |-> <<>>, err |-> ErrInvalidOpenAPI]>>
           /\ pc' = "returned"
           /\ UNCHANGED <<calls, shared>>
       ELSE IF input \notin DOMAIN text.schemas THEN
           /\ parsed' = <<[schema |-> <<>>, ui |-> <<>>, err |-> ErrSchemaNotFound]>>
           /\ pc' = "returned"
           /\ UNCHANGED <<calls, shared>>
       ELSE IF ~text.schemas[input].ok THEN
           /\ parsed' = <<[schema |-> <<>>, ui |-> <<>>, err |-> ErrInvalidOpenAPI]>>
           /\ pc' = "returned"
           /\ UNCHANGED <<calls, shared>>
       ELSE
           /\ shared' = allSchemasOf(text)
           /\ calls' = <<[oa |-> text.schemas[input].s, idx |-> 1]>>
           /\ pc' = "convert"
           /\ UNCHANGED parsed
    /\ UNCHANGED <<input, opts, root, built, catInput, catOrder, catMap, catNext,
                   catRuns, groupRuns, text, jschema>>

\* a step of convertOpenAPIToJSONSchema; when the first call returns, line 78
\* sets the draft and line 80 calls buildOpenAPIUISchema; the runtime ends the
\* program when the stack passes its limit
WalkConvert ==
    /\ pc = "convert"
    /\ LET st == oaStep(calls, shared, "convert")
       IN  IF Len(st) > MaxStack THEN
               /\ pc' = "overflow"
               /\ calls' = st
               /\ UNCHANGED jschema
           ELSE IF st = <<>> THEN
               /\ pc' = "build"
               /\ jschema' = <<[convertOpenAPIToJSONSchema(text.schemas[input].s, shared)
                                   EXCEPT !.Schema = DraftURL(opts)]>>
               /\ calls' = <<[oa |-> text.schemas[input].s, idx |-> 1]>>
           ELSE
               /\ pc' = "convert"
               /\ calls' = st
               /\ UNCHANGED jschema
    /\ UNCHANGED <<input, opts, root, built, catInput, catOrder, catMap, catNext,
                   catRuns, groupRuns, text, parsed, shared>>

\* a step of buildOpenAPIUISchema; when the first call returns, line 82
\* returns the two schemas and the nil error
WalkBuild ==
    /\ pc = "build"
    /\ calls' = oaStep(calls, shared, "build")
    /\ IF Len(calls') > MaxStack THEN
           /\ pc' = "overflow"
           /\ UNCHANGED <<root, parsed>>
       ELSE IF calls' = <<>> THEN
           /\ pc' = "returned"
           /\ root' = buildOpenAPIUISchema(text.schemas[input].s, "#/properties", <<>>, shared)
           /\ parsed' = <<[schema |-> jschema, ui |-> <<root'>>, err |-> NilError]>>
       ELSE
           /\ pc' = "build"
           /\ UNCHANGED <<root, parsed>>
    /\ UNCHANGED <<input, opts, built, catInput, catOrder, catMap, catNext,
                   catRuns, groupRuns, text, jschema, shared>>

NextOpenAPI ==
    \/ EnterOpenAPI
    \/ WalkConvert
    \/ WalkBuild

\* the goroutine of the call keeps running
SpecOpenAPI == InitOpenAPI /\ [][NextOpenAPI]_vars /\ WF_vars(NextOpenAPI)

\* C29: GenerateFromOpenAPI returns, with the schemas or with an error, for
\* every document, those with a cycle of references included.
C29_OpenAPITerminates == <>(pc = "returned")

\* a returned call gives an error and no schema, or both schemas and no error
OpenAPIReturnsSchemasOrError ==
    pc = "returned" =>
        /\ Len(parsed) = 1
        /\ IF parsed[1].err.nil THEN Len(parsed[1].schema) = 1 /\ Len(parsed[1].ui) = 1
           ELSE parsed[1].schema = <<>> /\ parsed[1].ui = <<>>

\* the call that stops on the stack limit is inside a cycle of references:
\* two frames of the stack are calls on the same schema
OverflowOnlyInsideCycle ==
    pc = "overflow" =>
        \E i, j \in DOMAIN calls : i < j /\ calls[i].oa = calls[j].oa

---------------------------------------------------------------------------
(* api package: GenerateHandler (registry.go lines 59-205)                 *)
(*                                                                         *)
(* text is the request; shared is the handler's registry, whose values are *)
(* zero values of the struct types of the table input; parsed is what has  *)
(* been written to the http.ResponseWriter; calls is the stack of the      *)
(* goroutine serving the request.                                          *)

StatusOK == 200
StatusBadRequest == 400
StatusNotFound == 404
StatusMethodNotAllowed == 405
StatusInternalServerError == 500

\* the body as the handler meets it: it cannot be read; it is empty; it does
\* not unmarshal into a generateRequest (not JSON, or JSON of another shape);
\* or it unmarshals, with Type "" when absent and Data <<>> when absent
BodyOf(kind, type, data) == [kind |-> kind, Type |-> type, Data |-> data]

RequestTypes == {"", "User", "Node", "Nope"}

\* the raw JSON of the data field: objects, an array, null and a string
RequestData ==
    {<<>>}
    \cup {<<JSONValue(k, <<>>, <<>>)>> : k \in {"array", "null", "string"}}
    \cup {<<JSONValue("object", m, <<>>)>> :
            m \in {<<>>, <<[key |-> "b", val |-> JSONValue("string", <<>>, <<>>)],
                           [key |-> "a", val |-> JSONValue("integer", <<>>, <<>>)]>>}}

Requests ==
    [method : {"POST", "GET", "DELETE"},
     body : {BodyOf(k, "", <<>>) : k \in {"unreadable", "empty", "undecodable"}}
            \cup {BodyOf("request", t, d) : t \in RequestTypes, d \in RequestData}]

\* Lookup's error (line 40)
ErrNotInRegistry == [nil |-> FALSE, is |-> "not found in registry"]

\* lines 202-205; every error that reaches the handler has a message longer
\* than the suffix
isNotFoundError(err) == ~err.nil /\ err.is = "not found in registry"

\* lines 143-153: the status of an error
statusOfError(err) ==
    IF isNotFoundError(err) THEN StatusNotFound
    ELSE IF err = ErrInvalidJSON \/ err = ErrNotJSONObject THEN StatusBadRequest
    ELSE StatusInternalServerError

\* writeError (lines 197-199) and writeJSON (lines 189-194): the response
\* written
writeError(status, message) ==
    [status |-> status, contentType |-> "application/json",
     error |-> <<message>>, schema |-> <<>>, uischema |-> <<>>]

writeJSON(status, schema, uischema) ==
    [status |-> status, contentType |-> "application/json",
     error |-> <<>>, schema |-> schema, uischema |-> uischema]

InitHandler ==
    /\ pc = "handler"
    /\ text \in Requests
    /\ \E k1, k2 \in 0..MaxTypeFields :
          \E f1 \in [1..k1 -> TypeFieldChoices(1)] :
              \E f2 \in [1..k2 -> TypeFieldChoices(2)] :
                  input = (TypeNames[1] :> f1) @@ (TypeNames[2] :> f2)
    /\ shared \in {[NewRegistry EXCEPT !.types = t] :
                      t \in {<<>>, ("User" :> TypeNames[1]),
                             ("User" :> TypeNames[1]) @@ ("Node" :> TypeNames[2])}}
    /\ opts = [Draft |-> "draft-07"] @@ DefaultOptions
    /\ parsed = <<>>
    /\ calls = <<>>
    /\ jschema = <<>>
    /\ root = NewVerticalLayout
    /\ built = <<>>
    /\ catInput = <<>>
    /\ catOrder = <<>>
    /\ catMap = <<>>
    /\ catNext = 0
    /\ catRuns = 0
    /\ groupRuns = 0

\* lines 107-141 up to the call of a generator, and lines 143-156 for the
\* request with data, whose generator is one call of GenerateFromJSON
ServeRequest ==
    /\ pc = "handler"
    /\ LET body == text.body
           found == mapGet(shared.types, body.Type)
       IN  IF text.method # "POST" THEN
               /\ parsed' = <<writeError(StatusMethodNotAllowed, "method not allowed, use POST")>>
               /\ pc' = "returned"
               /\ UNCHANGED calls
           ELSE IF body.kind = "unreadable" THEN
               /\ parsed' = <<writeError(StatusBadRequest, "failed to read request body")>>
               /\ pc' = "returned"
               /\ UNCHANGED calls
           ELSE IF body.kind = "empty" THEN
               /\ parsed' = <<writeError(StatusBadRequest, "request body is empty")>>
               /\ pc' = "returned"
               /\ UNCHANGED calls
           ELSE IF body.kind = "undecodable" THEN
               /\ parsed' = <<writeError(StatusBadRequest, "invalid JSON in request body")>>
               /\ pc' = "returned"
               /\ UNCHANGED calls
           ELSE IF body.Type # "" THEN
               IF ~found.ok THEN
                   /\ parsed' = <<writeError(statusOfError(ErrNotInRegistry), ErrNotInRegistry.is)>>
                   /\ pc' = "returned"
                   /\ UNCHANGED calls
               ELSE
                   /\ calls' = <<[type |-> found.v, idx |-> 1]>>
                   /\ pc' = "GenerateJSONSchema"
                   /\ UNCHANGED parsed
           ELSE IF Len(body.Data) > 0 THEN
               /\ \E ord \in IF body.Data[1].kind = "object"
                             THEN KeyOrders(ObjMap(body.Data[1].members))
                             ELSE {[top |-> <<>>, nest |-> <<>>]} :
                     LET r == generateFromJSON(body.Data[1], opts, ord)
                     IN  parsed' = IF r.err.nil THEN <<writeJSON(StatusOK, r.schema, r.ui)>>
                                   ELSE <<writeError(statusOfError(r.err), r.err.is)>>
               /\ pc' = "returned"
               /\ UNCHANGED calls
           ELSE
               /\ parsed' = <<writeError(StatusBadRequest,
                                 "request must contain \"type\" or \"data\" field")>>
               /\ pc' = "returned"
               /\ UNCHANGED calls
    /\ UNCHANGED <<input, opts, root, built, catInput, catOrder, catMap, catNext,
                   catRuns, groupRuns, text, jschema, shared>>

\* generateFromType, line 166: a step of parser.GenerateJSONSchema(v); the
\* runtime ends the program when the stack passes its limit
HandlerJSONSchema ==
    /\ pc = "GenerateJSONSchema"
    /\ LET st == walkStep(calls, input, "schema")
           v == mapGet(shared.types, text.body.Type).v
       IN  IF Len(st) > MaxStack THEN
               /\ pc' = "overflow"
               /\ calls' = st
               /\ UNCHANGED jschema
           ELSE IF st = <<>> THEN
               /\ pc' = "GenerateUISchema"
               /\ jschema' = <<GenerateJSONSchemaWithOptions(Unfold(input, v, "schema"), opts)>>
               /\ calls' = <<[type |-> v, idx |-> 1]>>
           ELSE
               /\ pc' = "GenerateJSONSchema"
               /\ calls' = st
               /\ UNCHANGED jschema
    /\ UNCHANGED <<input, opts, root, built, catInput, catOrder, catMap, catNext,
                   catRuns, groupRuns, text, parsed, shared>>

\* generateFromType, line 171: a step of parser.GenerateUISchema(v); when it
\* returns, lines 176 and 156 write the response
HandlerUISchema ==
    /\ pc = "GenerateUISchema"
    /\ calls' = walkStep(calls, input, "ui")
    /\ IF Len(calls') > MaxStack THEN
           /\ pc' = "overflow"
           /\ UNCHANGED <<root, parsed>>
       ELSE IF calls' = <<>> THEN
           /\ pc' = "returned"
           /\ root' = GenerateUISchemaWithOptions(
                          Unfold(input, mapGet(shared.types, text.body.Type).v, "ui"), opts)
           /\ parsed' = <<writeJSON(StatusOK, jschema, <<root'>>)>>
       ELSE
           /\ pc' = "GenerateUISchema"
           /\ UNCHANGED <<root, parsed>>
    /\ UNCHANGED <<input, opts, built, catInput, catOrder, catMap, catNext,
                   catRuns, groupRuns, text, jschema, shared>>

NextHandler ==
    \/ ServeRequest
    \/ HandlerJSONSchema
    \/ HandlerUISchema

SpecHandler == InitHandler /\ [][NextHandler]_vars

\* the status the request is to be answered with: 405, then the 400s of the
\* body, then 404 for a type the registry lacks, then 400 for data that is
\* not an object, else 200
ClaimedStatus ==
    IF text.method # "POST" THEN StatusMethodNotAllowed
    ELSE IF text.body.kind # "request" THEN StatusBadRequest
    ELSE IF text.body.Type = "" /\ text.body.Data = <<>> THEN StatusBadRequest
    ELSE IF text.body.Type # "" THEN
        IF text.body.Type \in DOMAIN shared.types THEN StatusOK ELSE StatusNotFound
    ELSE IF text.body.Data[1].kind # "object" THEN StatusBadRequest
    ELSE StatusOK

\* a response as the claim has it
ClaimedResponse(resp) ==
    /\ resp.contentType = "application/json"
    /\ resp.status = ClaimedStatus
    /\ resp.status # StatusOK => Len(resp.error) = 1
    /\ resp.status = StatusOK => Len(resp.schema) = 1 /\ Len(resp.uischema) = 1

\* C26: when the goroutine serving a request has ended, exactly one JSON
\* response has been written; its status is 405, 400, 404, 400 or 200 in the
\* order of the checks, a 200 carries schema and uischema and every other
\* status an error field.
C26_OneResponseInOrder ==
    pc \in {"returned", "overflow"} => Len(parsed) = 1 /\ ClaimedResponse(parsed[1])

\* at most one response is written, and a response written is as claimed
ResponsesAsClaimed ==
    Len(parsed) <= 1 /\ \A i \in DOMAIN parsed : ClaimedResponse(parsed[i])

\* the handler has returned for a registered type although the request also
\* carried data that is not an object: the type is consulted first
TypeBeforeData ==
    /\ pc = "returned"
    /\ text.body.Type = "User"
    /\ Len(text.body.Data) = 1
    /\ text.body.Data[1].kind = "array"
    /\ parsed[1].status = StatusOK

\* the goroutine ends without a response only inside a registered type that
\* contains itself
NoResponseOnlyWhenSelfContaining ==
    (pc = "overflow") =>
        \E i, j \in DOMAIN calls : i < j /\ calls[i].type = calls[j].type

=============================================================================
